---- MODULE Spec2Model ----
(***************************************************************************)
(* EmailScope: the frontier crawler (src/emailscope/crawler.py), its link  *)
(* ranking, and the verification stage of the dashboard pipeline           *)
(* (src/emailscope/dashboard.py).                                          *)
(*                                                                         *)
(* Strings are sequences of tokens.  A token is a run of characters that   *)
(* no pattern of the code splits ("contact", ".pdf", "a.com"); the         *)
(* characters the code counts or searches for on their own ("/", "?", "#") *)
(* are tokens of their own, so "https://a.com/doc.pdf?v=1" is              *)
(* <<"https:", "/", "/", "a.com", "/", "doc", ".pdf", "?", "v=1">>.        *)
(* Substring search, prefix and suffix tests and count() then work on the  *)
(* token sequence as the code's work on the characters.                    *)
(***************************************************************************)
EXTENDS Integers, Sequences, FiniteSets, TLC

\* ------------------------------------------------------------------ bounds
MaxPagesBound == 4
MaxDepthBound == 2
MaxRankLen == 3

\* ------------------------------------------------------------ string helpers
Contains(s, p) ==
    \E i \in 0..(Len(s) - Len(p)) : SubSeq(s, i + 1, i + Len(p)) = p

StartsWith(s, p) ==
    Len(s) >= Len(p) /\ SubSeq(s, 1, Len(p)) = p

EndsWith(s, p) ==
    Len(s) >= Len(p) /\ SubSeq(s, Len(s) - Len(p) + 1, Len(s)) = p

Count(s, tok) == Cardinality({i \in DOMAIN s : s[i] = tok})

\* str.lower(): the only tokens with upper-case letters in the model
LowerTok(t) ==
    CASE t = "ADMIN" -> "admin"
      [] t = "Contact" -> "contact"
      [] OTHER -> t

Lower(s) == [i \in DOMAIN s |-> LowerTok(s[i])]

\* the first index of s holding a token of stops, Len(s)+1 when there is none
FirstOf(s, stops, from) ==
    LET hits == {i \in from..Len(s) : s[i] \in stops}
    IN  IF hits = {} THEN Len(s) + 1
        ELSE CHOOSE i \in hits : \A j \in hits : i <= j

Range(s) == {s[i] : i \in DOMAIN s}

\* the orders in which a set may be listed
RECURSIVE Perms(_)
Perms(S) ==
    IF S = {} THEN {<<>>}
    ELSE UNION {{<<x>> \o p : p \in Perms(S \ {x})} : x \in S}

\* ------------------------------------------------------------ urllib.parse
HTTPS == <<"https:", "/", "/">>
HTTP == <<"http:", "/", "/">>

\* urlparse(url) of an absolute url: scheme://netloc path ?query #fragment
urlparse(u) ==
    LET n0 == 4
        n1 == FirstOf(u, {"/", "?", "#"}, n0)
        p1 == FirstOf(u, {"?", "#"}, n1)
        q1 == FirstOf(u, {"#"}, p1)
    IN  [scheme |-> u[1],
         netloc |-> SubSeq(u, n0, n1 - 1),
         path |-> SubSeq(u, n1, p1 - 1),
         query |-> IF p1 <= Len(u) /\ u[p1] = "?" THEN SubSeq(u, p1 + 1, q1 - 1) ELSE <<>>,
         fragment |-> IF q1 <= Len(u) THEN SubSeq(u, q1 + 1, Len(u)) ELSE <<>>]

\* an href urljoin/urlparse reject with ValueError ("//[": Invalid IPv6 URL)
Malformed(href) == Contains(href, <<"[">>)

\* urljoin(base, href) for an absolute href, a root-relative one ("/x") and a
\* fragment-only one ("#x"); base is the seed, scheme://netloc[/path]
urljoin(base, href) ==
    LET b == urlparse(base)
        root == <<b.scheme, "/", "/">> \o b.netloc
    IN  IF StartsWith(href, HTTPS) \/ StartsWith(href, HTTP) THEN href
        ELSE IF StartsWith(href, <<"/">>) THEN root \o href
        ELSE root \o b.path
                  \o (IF b.query # <<>> THEN <<"?">> \o b.query ELSE <<>>)
                  \o href

\* ------------------------------------------------------------------ inputs
\* the domain argument of crawl_company_website
Seeds ==
    { <<"a.com">>,
      <<"https:", "/", "/", "a.com", "/", "admin", "/">> }

\* the href attributes of the anchors of a page
H_contact == <<"/", "contact">>
H_about == <<"/", "about", "#", "team">>
H_admin == <<"https:", "/", "/", "a.com", "/", "ADMIN", "/">>
H_pdf_query == <<"/", "doc", ".pdf", "?", "v=1">>
H_pdf == <<"/", "doc", ".pdf">>
H_other_host == <<"https:", "/", "/", "b.org", "/", "a.com">>
H_malformed == <<"/", "/", "[">>

\* the pages a site may serve: each the set of its hrefs
Pages ==
    { {},
      {H_contact, H_about},
      {H_contact, H_pdf_query},
      {H_about, H_other_host},
      {H_contact, H_about, H_pdf_query},
      {H_admin, H_pdf},
      {H_pdf_query, H_other_host, H_admin},
      {H_contact, H_malformed} }

VARIABLES
    \* WebCrawler configuration
    max_pages, max_depth, bypass_robots,
    \* WebCrawler state
    visited_urls, crawled_urls, failed_urls,
    \* crawl_company_website: locals and position
    pc, domain, discovered_urls, urls_to_crawl, current_batch, bi, depth,
    final_urls, robots_resp,
    \* history: the urls handed to _fetch_page in this crawl, in order, and the
    \* reasons for which a link of a fetched page was left out so far
    fetch_log, dropped,
    \* history: the urls of discovered_urls in the order in which they were added
    discovered_order,
    \* link ranking on its own: the list handed in, the list returned
    rank_pc, rank_in, rank_out,
    \* EmailScopeDashboard configuration: config['max_workers']
    max_workers,
    \* EmailScopeDashboard state
    scraping_status, stop_scraping, results,
    \* _scrape_domain: its position, locals, the futures of the verification pool,
    \* and the armed "reset to idle" timer
    run_pc, all_emails, future_state, future_result, yielded, current_future, cancel_i,
    reset_timer, runs,
    \* history of the current run: whether the collector has seen the stop flag, the
    \* tasks finished at that moment, the tasks begun after it, len(results) at start
    stop_seen, finished_at_stop, started_after_stop, results_base,
    \* history of the current run: whether POST /api/stop was accepted during it
    stop_accepted,
    \* the rows of the emails table, the source tags extract_all_emails gave the
    \* addresses of the run, and the tasks whose verification raised
    db_emails, email_sources, task_raised,
    \* the crawl_company_website calls of two run threads on the dashboard's one
    \* crawler: the locals and position of each, and the urls each has fetched
    crawls,
    \* _normalize_email on its own: the string handed in, the string returned, and
    \* what it returns for that
    norm_pc, norm_in, norm_out, norm_twice,
    \* get_email_confidence_score on its own: the address, the domain, and the score
    \* returned for each source
    score_pc, score_email, score_domain, score_out,
    \* EmailVerifier: its mock_dns setting, the address handed to verify_email, the
    \* tuple returned, and whether the MX record was asked for
    verify_pc, mock_dns, verify_in, verify_out, mx_asked,
    \* history: the checks verify_email went through for the address, in order
    verify_stages,
    \* history: what the resolver answers when it is asked for the MX record of the domain
    mx_record,
    \* generate_common_emails on its own: the domain handed in, the list returned,
    \* and the list a second call returns
    gen_pc, gen_domain, gen_out, gen_twice,
    \* extract_all_emails on its own: the pieces of the content, the soup, the
    \* domain, and the tuple returned
    text_pc, text_parts, text_soup, text_domain, text_out,
    \* _apply_rate_limit in the crawl loop: the position in the loop, the time that
    \* has really passed, what time.time() reads ahead of it, the crawler's
    \* rate_limit and rate_limiter, and the last sleep_time
    pace_pc, clock, wall_skew, rate_limit, rate_limiter, slept,
    \* history: the instants at which _apply_rate_limit returned in this crawl
    released_at,
    \* _filter_and_prioritize_links on its own: the links and the domain handed in,
    \* the crawler's visited_urls and failed_urls, and the list returned
    flt_pc, flt_links, flt_domain, flt_visited, flt_failed, flt_out,
    \* the dashboard with its requests and run threads: the locals and position of
    \* each _scrape_domain thread, the number of sleeping reset threads, the rows of
    \* the database, and self.current_domain_id (0 for None)
    threads, timers, db, current_domain_id

cfgVars == <<max_pages, max_depth, bypass_robots>>
crawlVars == <<visited_urls, crawled_urls, failed_urls, pc, domain, discovered_urls,
               urls_to_crawl, current_batch, bi, depth, final_urls, robots_resp, fetch_log,
               dropped, discovered_order>>
rankVars == <<rank_pc, rank_in, rank_out>>
pipeVars == <<max_workers, stop_accepted, db_emails, email_sources, task_raised,
              scraping_status, stop_scraping, results, run_pc, all_emails, future_state,
              future_result, yielded, current_future, cancel_i, reset_timer, runs,
              stop_seen, finished_at_stop, started_after_stop, results_base>>
overlapVars == <<crawls>>
normVars == <<norm_pc, norm_in, norm_out, norm_twice>>
scoreVars == <<score_pc, score_email, score_domain, score_out>>
verifyVars == <<verify_pc, mock_dns, verify_in, verify_out, mx_asked, verify_stages,
               mx_record>>
genVars == <<gen_pc, gen_domain, gen_out, gen_twice>>
textVars == <<text_pc, text_parts, text_soup, text_domain, text_out>>
paceVars == <<pace_pc, clock, wall_skew, rate_limit, rate_limiter, slept, released_at>>
filterVars == <<flt_pc, flt_links, flt_domain, flt_visited, flt_failed, flt_out>>
dashVars == <<threads, timers, db, current_domain_id>>
extraVars == <<genVars, textVars, paceVars, filterVars, dashVars>>
pureVars == <<normVars, scoreVars, verifyVars, extraVars>>
vars == <<cfgVars, crawlVars, rankVars, pipeVars, overlapVars, pureVars>>

\* ------------------------------------------------------- crawler: helpers
\* str.replace(p, ""): every occurrence of p removed, left to right
RECURSIVE Remove(_, _)
Remove(s, p) ==
    IF Len(s) < Len(p) \/ s = <<>> THEN s
    ELSE IF StartsWith(s, p) THEN Remove(SubSeq(s, Len(p) + 1, Len(s)), p)
    ELSE <<s[1]>> \o Remove(Tail(s), p)

\* seq[:n]
Slice(s, n) ==
    IF n >= 0 THEN SubSeq(s, 1, IF n < Len(s) THEN n ELSE Len(s))
    ELSE SubSeq(s, 1, IF Len(s) + n > 0 THEN Len(s) + n ELSE 0)

\* a link extractor that takes every link for an internal one
is_internal_link_any(url, base_url) == TRUE

_is_internal_link(url, base_url) ==
    urlparse(url).netloc = urlparse(base_url).netloc

_clean_url(url) ==
    LET parsed == urlparse(url)
    IN  <<parsed.scheme, "/", "/">> \o parsed.netloc \o parsed.path
            \o (IF parsed.query # <<>> THEN <<"?">> \o parsed.query ELSE <<>>)

\* the set of links of a page whose hrefs all parse
_extract_links(hrefs, base_url) ==
    { _clean_url(urljoin(base_url, h)) :
        h \in {g \in hrefs : _is_internal_link(urljoin(base_url, g), base_url)} }

Seg(name) == <<"/", name, "/">>

skip_patterns ==
    { Seg("wp-admin"), Seg("admin"), Seg("login"), Seg("register"), Seg("signup"),
      Seg("logout"), Seg("api"), Seg("ajax"), Seg("static"), Seg("assets"), Seg("css"),
      Seg("js"), Seg("images"), Seg("img"), Seg("photos"), Seg("videos"), Seg("media"),
      Seg("download"), Seg("files"), Seg("documents"), Seg("pdf"), Seg("doc"),
      Seg("search"), Seg("filter"), Seg("sort"), Seg("page"), Seg("tag"), Seg("category"),
      Seg("archive"), Seg("feed"), Seg("rss"), <<"/", "sitemap">>, <<"/", "robots", ".txt">>,
      <<"/", "favicon", ".ico">>, <<"/", "apple-touch-icon">>, <<"/", "manifest", ".json">> }

skip_extensions ==
    { ".pdf", ".doc", ".docx", ".xls", ".xlsx", ".ppt", ".pptx",
      ".zip", ".rar", ".tar", ".gz", ".jpg", ".jpeg", ".png", ".gif",
      ".svg", ".ico", ".css", ".js", ".xml", ".json", ".txt" }

priority_keywords ==
    { "contact", "about", "team", "staff", "people", "leadership", "management",
      "support", "help", "info", "news", "press", "media", "company",
      "services", "products", "solutions", "careers", "jobs", "hiring" }

\* a keyword is one token, so "keyword in link_lower" asks for that token
link_priority(link) ==
    LET link_lower == Lower(link)
        tokens == Range(link_lower)
        keywords == Cardinality({k \in priority_keywords : k \in tokens})
        main == \E section \in {<<"/">>, <<"/", "home">>, <<"/", "index">>} :
                    Contains(link_lower, section)
        path_depth == Count(link, "/") - 2
    IN  10 * keywords + (IF main THEN 5 ELSE 0) - path_depth

\* the keys of the links of a list, each computed once
Keys(links) == [l \in Range(links) |-> link_priority(l)]

\* sorted(..., key=link_priority, reverse=True): x goes behind every element whose
\* key is not smaller, so equal keys keep the order in which they arrive
RECURSIVE InsertDesc(_, _, _)
InsertDesc(sorted, x, key) ==
    IF sorted = <<>> THEN <<x>>
    ELSE IF key[Head(sorted)] >= key[x]
         THEN <<Head(sorted)>> \o InsertDesc(Tail(sorted), x, key)
         ELSE <<x>> \o sorted

RECURSIVE SortedDesc(_, _, _)
SortedDesc(links, n, key) ==
    IF n = 0 THEN <<>> ELSE InsertDesc(SortedDesc(links, n - 1, key), links[n], key)

\* the slip sorted(links, key=link_priority)[::-1]: descending, equal keys reversed
RECURSIVE SortedAscReversed(_, _)
SortedAscReversed(links, n) ==
    IF n = 0 THEN <<>>
    ELSE LET rest == SortedAscReversed(links, n - 1)
             k == Cardinality({i \in DOMAIN rest :
                                 link_priority(rest[i]) > link_priority(links[n])})
         IN  SubSeq(rest, 1, k) \o <<links[n]>> \o SubSeq(rest, k + 1, Len(rest))

prioritize_reversed_ties(links) == SortedAscReversed(links, Len(links))

_prioritize_links_by_relevance(links) == SortedDesc(links, Len(links), Keys(links))

\* domain.replace('https://', '').replace('http://', '').split('/')[0]
DomainParts(dom) ==
    LET d == Remove(Remove(dom, HTTPS), HTTP)
    IN  SubSeq(d, 1, FirstOf(d, {"/"}, 1) - 1)

\* the tests of the filter loop on one link
Skipped(link, domain_parts, visited, failed) ==
    LET link_lower == Lower(link)
    IN  \/ link \in visited \/ link \in failed
        \/ ~Contains(link, domain_parts)
        \/ \E pattern \in skip_patterns : Contains(link_lower, pattern)
        \/ \E ext \in skip_extensions : EndsWith(link_lower, <<ext>>)

\* the filter loop over the links, in the order the caller's set yields them
FilterLinks(links, dom, visited, failed) ==
    LET domain_parts == DomainParts(dom)
    IN  SelectSeq(links, LAMBDA link : ~Skipped(link, domain_parts, visited, failed))

_filter_and_prioritize_links(links, dom, visited, failed) ==
    _prioritize_links_by_relevance(FilterLinks(links, dom, visited, failed))

\* "remove duplicates while preserving order"
RECURSIVE Unique(_, _)
Unique(urls, seen) ==
    IF urls = <<>> THEN <<>>
    ELSE IF Head(urls) \in seen THEN Unique(Tail(urls), seen)
    ELSE <<Head(urls)>> \o Unique(Tail(urls), seen \cup {Head(urls)})

\* the final ranking without "[:self.max_pages]"
prioritize_urls_untruncated(urls, maxp) ==
    _prioritize_links_by_relevance(Unique(urls, {}))

_prioritize_urls(urls, maxp) ==
    Slice(_prioritize_links_by_relevance(Unique(urls, {})), maxp)

\* robots.txt as the crawler sees it: 200 with or without "disallow: /", another
\* status, or a request that raises
RobotsResponses == {"disallow", "allow", "non200", "error"}

\* a check that allows whatever robots.txt says
robots_ignored(bypass, resp) == TRUE

_check_robots_txt(bypass, resp) ==
    IF bypass THEN TRUE ELSE resp # "disallow"

\* --------------------------------------------------- crawl_company_website
FetchResults ==
    {[ok |-> FALSE, hrefs |-> {}]} \cup {[ok |-> TRUE, hrefs |-> H] : H \in Pages}

\* a crawler that keeps the sets of the crawl before
NotCleared(s) == s

\* self.visited_urls.clear() and its two siblings
Cleared(s) == {}

\* a level that leaves its batch in the queue
NotDrained(queue) == queue

\* urls_to_crawl.clear()
Drained(queue) == <<>>

\* the loop below without its room test
\* the loop without "if depth < self.max_depth"
RECURSIVE AddLinksAnyDepth(_, _, _, _, _, _)
AddLinksAnyDepth(links, disc, queue, d, maxp, maxd) ==
    IF links = <<>> THEN [disc |-> disc, queue |-> queue]
    ELSE LET link == Head(links)
         IN  IF link \notin disc /\ Cardinality(disc) < maxp
             THEN AddLinksAnyDepth(Tail(links), disc \cup {link}, Append(queue, link),
                                   d, maxp, maxd)
             ELSE AddLinksAnyDepth(Tail(links), disc, queue, d, maxp, maxd)

RECURSIVE AddLinksNoCap(_, _, _, _, _, _)
AddLinksNoCap(links, disc, queue, d, maxp, maxd) ==
    IF links = <<>> THEN [disc |-> disc, queue |-> queue]
    ELSE LET link == Head(links)
         IN  IF link \notin disc
             THEN AddLinksNoCap(Tail(links), disc \cup {link},
                                IF d < maxd THEN Append(queue, link) ELSE queue,
                                d, maxp, maxd)
             ELSE AddLinksNoCap(Tail(links), disc, queue, d, maxp, maxd)

\* a loop that queues every link and records none as discovered
AddLinksUnrecorded(links, disc, queue, d, maxp, maxd) ==
    [disc |-> disc, queue |-> IF d < maxd THEN queue \o links ELSE queue]

\* "for link in filtered_links": a link enters discovered_urls while there is
\* room, and the next level's queue below max_depth
RECURSIVE AddLinks(_, _, _, _, _, _)
AddLinks(links, disc, queue, d, maxp, maxd) ==
    IF links = <<>> THEN [disc |-> disc, queue |-> queue]
    ELSE LET link == Head(links)
         IN  IF link \notin disc /\ Cardinality(disc) < maxp
             THEN AddLinks(Tail(links), disc \cup {link},
                           IF d < maxd THEN Append(queue, link) ELSE queue,
                           d, maxp, maxd)
             ELSE AddLinks(Tail(links), disc, queue, d, maxp, maxd)

\* why the links of a page are left out: by _extract_links (another host), by the
\* filter's patterns, by its extensions
DropReasons(hrefs, base_url) ==
    IF \E h \in hrefs : Malformed(h) THEN {}
    ELSE LET full == {urljoin(base_url, h) : h \in hrefs}
             inside == {_clean_url(u) : u \in {v \in full : _is_internal_link(v, base_url)}}
         IN  (IF \E u \in full : ~_is_internal_link(u, base_url) THEN {"host"} ELSE {})
             \cup (IF \E u \in inside : \E pattern \in skip_patterns :
                        Contains(Lower(u), pattern) THEN {"pattern"} ELSE {})
             \cup (IF \E u \in inside : \E ext \in skip_extensions :
                        EndsWith(Lower(u), <<ext>>) THEN {"extension"} ELSE {})

CrawlerOff ==
    /\ max_pages = 0
    /\ max_depth = 0
    /\ bypass_robots = TRUE
    /\ visited_urls = {}
    /\ crawled_urls = {}
    /\ failed_urls = {}
    /\ pc = "off"
    /\ domain = <<>>
    /\ discovered_urls = {}
    /\ urls_to_crawl = <<>>
    /\ current_batch = <<>>
    /\ bi = 1
    /\ depth = 0
    /\ final_urls = <<>>
    /\ robots_resp = "unfetched"
    /\ fetch_log = <<>>
    /\ dropped = {}
    /\ discovered_order = <<>>

RankIdle ==
    /\ rank_pc = "off"
    /\ rank_in = <<>>
    /\ rank_out = <<>>

\* the two run threads
Invocations == {1, 2}

\* a thread that has not called crawl_company_website
NoCrawl ==
    [pc |-> "idle", domain |-> <<>>, discovered_urls |-> {}, urls_to_crawl |-> <<>>,
     current_batch |-> <<>>, bi |-> 1, depth |-> 0, final_urls |-> <<>>, fetched |-> {}]

OverlapOff == crawls = [t \in Invocations |-> NoCrawl]

NormOff ==
    /\ norm_pc = "off"
    /\ norm_in = <<>>
    /\ norm_out = <<>>
    /\ norm_twice = <<>>

ScoreOff ==
    /\ score_pc = "off"
    /\ score_email = <<>>
    /\ score_domain = <<>>
    /\ score_out = <<>>

VerifyOff ==
    /\ verify_pc = "off"
    /\ mock_dns = FALSE
    /\ verify_in = <<>>
    /\ verify_out = <<>>
    /\ mx_asked = FALSE
    /\ verify_stages = <<>>
    /\ mx_record = FALSE

GenOff ==
    /\ gen_pc = "off"
    /\ gen_domain = <<>>
    /\ gen_out = <<>>
    /\ gen_twice = <<>>

TextOff ==
    /\ text_pc = "off"
    /\ text_parts = <<>>
    /\ text_soup = <<>>
    /\ text_domain = <<>>
    /\ text_out = <<>>

PaceOff ==
    /\ pace_pc = "off"
    /\ clock = 0
    /\ wall_skew = 0
    /\ rate_limit = 0
    /\ rate_limiter = 0
    /\ slept = 0
    /\ released_at = <<>>

FilterOff ==
    /\ flt_pc = "off"
    /\ flt_links = <<>>
    /\ flt_domain = <<>>
    /\ flt_visited = {}
    /\ flt_failed = {}
    /\ flt_out = <<>>

DashOff ==
    /\ threads = <<>>
    /\ timers = 0
    /\ db = <<>>
    /\ current_domain_id = 0

ExtraOff == GenOff /\ TextOff /\ PaceOff /\ FilterOff /\ DashOff

PipelineOff ==
    /\ max_workers = 0
    /\ stop_accepted = FALSE
    /\ db_emails = {}
    /\ email_sources = <<>>
    /\ task_raised = {}
    /\ scraping_status = "idle"
    /\ stop_scraping = FALSE
    /\ results = <<>>
    /\ run_pc = "off"
    /\ all_emails = <<>>
    /\ future_state = <<>>
    /\ future_result = <<>>
    /\ yielded = {}
    /\ current_future = 0
    /\ cancel_i = 0
    /\ reset_timer = FALSE
    /\ runs = 0
    /\ stop_seen = FALSE
    /\ finished_at_stop = {}
    /\ started_after_stop = {}
    /\ results_base = 0

InitCrawler ==
    /\ RankIdle
    /\ PipelineOff
    /\ OverlapOff
    /\ ExtraOff
    /\ NormOff
    /\ ScoreOff
    /\ VerifyOff
    /\ max_pages \in 0..MaxPagesBound
    /\ max_depth \in 0..MaxDepthBound
    /\ bypass_robots \in BOOLEAN
    /\ visited_urls = {}
    /\ crawled_urls = {}
    /\ failed_urls = {}
    /\ pc = "idle"
    /\ domain = <<>>
    /\ discovered_urls = {}
    /\ urls_to_crawl = <<>>
    /\ current_batch = <<>>
    /\ bi = 1
    /\ depth = 0
    /\ final_urls = <<>>
    /\ robots_resp = "unfetched"
    /\ fetch_log = <<>>
    /\ dropped = {}
    /\ discovered_order = <<>>

\* lines 75-82: the state is reset and the seed gets its scheme
CrawlStart(d) ==
    /\ pc \in {"idle", "done"}
    /\ visited_urls' = Cleared(visited_urls)
    /\ crawled_urls' = Cleared(crawled_urls)
    /\ failed_urls' = Cleared(failed_urls)
    /\ domain' = IF StartsWith(d, HTTP) \/ StartsWith(d, HTTPS) THEN d ELSE HTTPS \o d
    /\ pc' = "robots"
    /\ discovered_urls' = {}
    /\ urls_to_crawl' = <<>>
    /\ current_batch' = <<>>
    /\ bi' = 1
    /\ depth' = 0
    /\ final_urls' = <<>>
    /\ robots_resp' = "unfetched"
    /\ fetch_log' = <<>>
    /\ dropped' = {}
    /\ discovered_order' = <<>>
    /\ UNCHANGED <<cfgVars, rankVars, pipeVars, overlapVars, pureVars>>

\* lines 87-95
CheckRobots ==
    /\ pc = "robots"
    /\ \E resp \in RobotsResponses :
         /\ robots_resp' = IF bypass_robots THEN "unfetched" ELSE resp
         /\ IF _check_robots_txt(bypass_robots, resp)
            THEN /\ urls_to_crawl' = <<domain>>
                 /\ discovered_urls' = {domain}
                 /\ discovered_order' = <<domain>>
                 /\ pc' = "level"
            ELSE /\ pc' = "done"
                 /\ UNCHANGED <<urls_to_crawl, discovered_urls, discovered_order>>
    /\ UNCHANGED <<cfgVars, visited_urls, crawled_urls, failed_urls, domain, current_batch,
                   bi, depth, final_urls, fetch_log, dropped, rankVars, pipeVars, overlapVars, pureVars>>

\* lines 98-104: the head of "for depth in range(self.max_depth + 1)"
LevelHead ==
    /\ pc = "level"
    /\ IF depth > max_depth \/ urls_to_crawl = <<>>
          \/ Cardinality(discovered_urls) >= max_pages
       THEN /\ pc' = "final"
            /\ UNCHANGED <<urls_to_crawl, current_batch, bi>>
       ELSE /\ current_batch' = urls_to_crawl
            /\ urls_to_crawl' = Drained(urls_to_crawl)
            /\ bi' = 1
            /\ pc' = "batch"
    /\ UNCHANGED <<cfgVars, visited_urls, crawled_urls, failed_urls, domain, discovered_urls,
                   depth, final_urls, robots_resp, fetch_log, dropped, discovered_order,
                   rankVars, pipeVars, overlapVars, pureVars>>

\* lines 106-141: one turn of "for url in current_batch", the end of the batch included
ProcessUrl ==
    /\ pc = "batch"
    /\ IF bi > Len(current_batch) \/ Cardinality(discovered_urls) >= max_pages
       THEN /\ depth' = depth + 1
            /\ pc' = "level"
            /\ UNCHANGED <<visited_urls, crawled_urls, failed_urls, discovered_urls,
                           urls_to_crawl, bi, final_urls, fetch_log, dropped,
                           discovered_order>>
       ELSE LET url == current_batch[bi]
            IN  IF url \in visited_urls
                THEN /\ bi' = bi + 1
                     /\ UNCHANGED <<visited_urls, crawled_urls, failed_urls, discovered_urls,
                                    urls_to_crawl, depth, pc, final_urls, fetch_log,
                                    dropped, discovered_order>>
                ELSE \E content \in FetchResults :
                       /\ fetch_log' = Append(fetch_log,
                                              [url |-> url, depth |-> depth, ok |-> content.ok])
                       /\ dropped' = dropped \cup DropReasons(content.hrefs, domain)
                       /\ IF ~content.ok
                          THEN /\ failed_urls' = failed_urls \cup {url}
                               /\ bi' = bi + 1
                               /\ UNCHANGED <<visited_urls, crawled_urls, discovered_urls,
                                              urls_to_crawl, depth, pc, final_urls,
                                              discovered_order>>
                          ELSE /\ visited_urls' = visited_urls \cup {url}
                               /\ crawled_urls' = crawled_urls \cup {url}
                               /\ UNCHANGED <<failed_urls, depth>>
                               /\ IF \E h \in content.hrefs : Malformed(h)
                                  THEN \* urljoin raises: "except Exception: return []"
                                       /\ pc' = "done"
                                       /\ final_urls' = <<>>
                                       /\ UNCHANGED <<discovered_urls, urls_to_crawl, bi,
                                                      discovered_order>>
                                  ELSE \E order \in Perms(_extract_links(content.hrefs, domain)) :
                                       \E filtered_links \in
                                              {_filter_and_prioritize_links(
                                                   order, domain, visited_urls', failed_urls)} :
                                       \E added \in {AddLinks(filtered_links, discovered_urls,
                                                              urls_to_crawl, depth,
                                                              max_pages, max_depth)} :
                                         /\ discovered_urls' = added.disc
                                         /\ urls_to_crawl' = added.queue
                                         /\ discovered_order' =
                                                discovered_order
                                                \o SelectSeq(filtered_links,
                                                             LAMBDA l : l \in added.disc
                                                                        /\ l \notin discovered_urls)
                                         /\ bi' = bi + 1
                                         /\ UNCHANGED <<pc, final_urls>>
    /\ UNCHANGED <<cfgVars, domain, current_batch, robots_resp, rankVars, pipeVars, overlapVars, pureVars>>

\* lines 143-148; list(discovered_urls) yields the set in an order of its own
Finalize ==
    /\ pc = "final"
    /\ \E order \in Perms(discovered_urls) :
         final_urls' = _prioritize_urls(order, max_pages)
    /\ pc' = "done"
    /\ UNCHANGED <<cfgVars, visited_urls, crawled_urls, failed_urls, domain, discovered_urls,
                   urls_to_crawl, current_batch, bi, depth, robots_resp, fetch_log, dropped,
                   discovered_order, rankVars, pipeVars, overlapVars, pureVars>>

Next ==
    \/ \E d \in Seeds : CrawlStart(d)
    \/ CheckRobots
    \/ LevelHead
    \/ ProcessUrl
    \/ Finalize

Spec == InitCrawler /\ [][Next]_vars

\* a crawl that has been started goes on through its loops: every request returns or
\* times out (lines 330-338), and no turn of a loop waits for anything else
CrawlStep == CheckRobots \/ LevelHead \/ ProcessUrl

SpecCrawlOn == InitCrawler /\ [][Next]_vars /\ WF_vars(CrawlStep)

\* ------------------------------------------- _prioritize_links_by_relevance
\* the links a ranking is asked to order
RankUrls ==
    { <<"https:", "/", "/", "a.com">>,
      <<"https:", "/", "/", "a.com", "/", "contact">>,
      <<"https:", "/", "/", "a.com", "/", "Contact">>,
      <<"https:", "/", "/", "a.com", "/", "about">>,
      <<"https:", "/", "/", "a.com", "/", "about", "/", "team">>,
      <<"https:", "/", "/", "a.com", "/", "doc", ".pdf", "?", "v=1">>,
      <<"https:", "/", "/", "a.com", "/", "index">> }

InitRank ==
    /\ CrawlerOff
    /\ PipelineOff
    /\ OverlapOff
    /\ ExtraOff
    /\ NormOff
    /\ ScoreOff
    /\ VerifyOff
    /\ rank_pc = "input"
    /\ rank_in \in UNION {[1..n -> RankUrls] : n \in 0..MaxRankLen}
    /\ rank_out = <<>>

Rank ==
    /\ rank_pc = "input"
    /\ rank_out' = _prioritize_links_by_relevance(rank_in)
    /\ rank_pc' = "ranked"
    /\ UNCHANGED <<cfgVars, crawlVars, rank_in, pipeVars, overlapVars, pureVars>>

NextRank == Rank

SpecRank == InitRank /\ [][NextRank]_vars

\* ------------------------------------------- dashboard: one pipeline run
\* the domain the user asked for: original_domain of _scrape_domain
OriginalDomain == <<"a.com">>

\* the addresses extraction may come up with, in sorted() order: one that is
\* generated for the domain, one of a partner that a page shows
EmailOrder == << <<"help", "@", "a.com">>, <<"sales", "@", "b.org">> >>

\* the run's view of candidate generation, on tokens: one of the fourteen
\* templates, "help@{domain}"; the other common, industry and company templates
\* add addresses with the same tag
common_formats_tok == <<"help">>

generate_common_emails_tok(dom) ==
    LET lowered == Lower(dom)
        clean_domain == IF StartsWith(lowered, <<"www.">>) THEN Tail(lowered) ELSE lowered
    IN  {<<common_formats_tok[k], "@">> \o clean_domain : k \in DOMAIN common_formats_tok}

\* extract_all_emails without soup: the tags of the addresses of one page, where a
\* generated address overwrites the tag of the same address found in the content
extract_all_emails_tok(content_emails, dom) ==
    LET generated_emails == generate_common_emails_tok(dom)
    IN  [found_emails |-> content_emails,
         generated_emails |-> generated_emails,
         email_sources |-> [e \in content_emails \cup generated_emails |->
                              IF e \in generated_emails THEN "generated" ELSE "found"]]

\* the source _verify_email_concurrent stores for an address (line 841)
GeneratedPrefixes ==
    {"info", "contact", "hello", "support", "sales", "admin", "team", "office"}

stored_source(email) ==
    IF \E prefix \in GeneratedPrefixes : StartsWith(email, <<prefix, "@">>)
    THEN "generated" ELSE "found"

\* what verify_email and db.add_email do for one address: a verdict, or an exception
VerifierOutcomes ==
    { [raises |-> FALSE, is_valid |-> TRUE, confidence |-> 100, reason |-> "Format: OK"],
      [raises |-> FALSE, is_valid |-> FALSE, confidence |-> 0, reason |-> "MX check failed"],
      [raises |-> TRUE, is_valid |-> FALSE, confidence |-> 0, reason |-> ""] }

NoResult ==
    [email |-> <<>>, confidence |-> 0, is_valid |-> FALSE, reason |-> "", status |-> "none"]

\* a task without its "except Exception": the exception leaves the task and is
\* raised again by future.result()
verify_email_concurrent_unguarded(email, out) ==
    IF out.raises
    THEN [NoResult EXCEPT !.email = email, !.status = "raised"]
    ELSE [email |-> email, confidence |-> out.confidence, is_valid |-> out.is_valid,
          reason |-> out.reason,
          status |-> IF out.is_valid THEN "verified" ELSE "unverified"]

\* the result dict of _verify_email_concurrent
_verify_email_concurrent(email, out) ==
    IF out.raises
    THEN [email |-> email, confidence |-> 0, is_valid |-> FALSE, reason |-> "Error",
          status |-> "error"]
    ELSE [email |-> email, confidence |-> out.confidence, is_valid |-> out.is_valid,
          reason |-> out.reason,
          status |-> IF out.is_valid THEN "verified" ELSE "unverified"]

InSet(S, e) == e \in S

\* sorted(list(all_emails)) of a set of addresses
SortedEmails(S) == SelectSeq(EmailOrder, LAMBDA e : InSet(S, e))

\* min(10, len(all_emails)): the size of the verification pool
VerifyPoolCap == 10
VerifyWorkers(emails) == IF Len(emails) < VerifyPoolCap THEN Len(emails) ELSE VerifyPoolCap

MaxRuns == 1

\* the values of config['max_workers'] that are tried
MaxWorkersBound == 2

Futures == DOMAIN all_emails
Running == {i \in Futures : future_state[i] = "running"}

InitPipeline ==
    /\ CrawlerOff
    /\ RankIdle
    /\ OverlapOff
    /\ ExtraOff
    /\ NormOff
    /\ ScoreOff
    /\ VerifyOff
    /\ max_workers \in 1..MaxWorkersBound
    /\ stop_accepted = FALSE
    /\ db_emails = {}
    /\ email_sources = <<>>
    /\ task_raised = {}
    /\ scraping_status = "idle"
    /\ stop_scraping = FALSE
    /\ results = <<>>
    /\ run_pc = "none"
    /\ all_emails = <<>>
    /\ future_state = <<>>
    /\ future_result = <<>>
    /\ yielded = {}
    /\ current_future = 0
    /\ cancel_i = 0
    /\ reset_timer = FALSE
    /\ runs = 0
    /\ stop_seen = FALSE
    /\ finished_at_stop = {}
    /\ started_after_stop = {}
    /\ results_base = 0

crawlerAndRank == <<cfgVars, crawlVars, rankVars, overlapVars, pureVars>>

\* POST /api/scrape (dashboard.py 94-113): a run starts only from "idle"
ScrapeRequest ==
    /\ scraping_status = "idle"
    /\ runs < MaxRuns
    /\ scraping_status' = "scraping"
    /\ run_pc' = "init"
    /\ runs' = runs + 1
    /\ stop_accepted' = FALSE
    /\ UNCHANGED <<crawlerAndRank, max_workers, db_emails, email_sources, task_raised, stop_scraping, results, all_emails, future_state,
                   future_result, yielded, current_future, cancel_i, reset_timer,
                   stop_seen, finished_at_stop, started_after_stop, results_base>>

\* POST /api/stop (dashboard.py 275-294)
StopRequest ==
    /\ scraping_status = "scraping"
    /\ stop_scraping' = TRUE
    /\ scraping_status' = "stopped"
    /\ stop_accepted' = TRUE
    /\ UNCHANGED <<crawlerAndRank, max_workers, db_emails, email_sources, task_raised, results, run_pc, all_emails, future_state, future_result,
                   yielded, current_future, cancel_i, reset_timer, runs,
                   stop_seen, finished_at_stop, started_after_stop, results_base>>

\* _scrape_domain 589-602: the stop flag is reset
RunInit ==
    /\ run_pc = "init"
    /\ stop_scraping' = FALSE
    /\ run_pc' = "gather"
    /\ all_emails' = <<>>
    /\ future_state' = <<>>
    /\ future_result' = <<>>
    /\ yielded' = {}
    /\ current_future' = 0
    /\ cancel_i' = 0
    /\ stop_seen' = FALSE
    /\ finished_at_stop' = {}
    /\ started_after_stop' = {}
    /\ results_base' = Len(results)
    /\ email_sources' = <<>>
    /\ task_raised' = {}
    /\ UNCHANGED <<crawlerAndRank, max_workers, db_emails, stop_accepted, scraping_status, results, reset_timer, runs>>

\* _scrape_domain 612-716: crawl and extraction, by their outcome: no URL, or no
\* page with content, ends the run in "error"; otherwise every address found or
\* generated is submitted to the pool
Gather ==
    /\ run_pc = "gather"
    /\ \E has_content \in BOOLEAN, content_emails \in SUBSET Range(EmailOrder) :
         IF ~has_content
         THEN /\ content_emails = {}
              /\ scraping_status' = "error"
              /\ run_pc' = "ended"
              /\ UNCHANGED <<all_emails, future_state, future_result, email_sources>>
         ELSE LET page == extract_all_emails_tok(content_emails, OriginalDomain)
                  found == page.found_emails \cup page.generated_emails
              IN  /\ all_emails' = SortedEmails(found)
                  /\ email_sources' = page.email_sources
                  /\ future_state' = [i \in 1..Cardinality(found) |-> "pending"]
                  /\ future_result' = [i \in 1..Cardinality(found) |-> NoResult]
                  /\ run_pc' = "wait"
                  /\ UNCHANGED scraping_status
    /\ UNCHANGED <<crawlerAndRank, max_workers, db_emails, task_raised, stop_accepted,
                   stop_scraping, results, yielded, current_future, cancel_i, reset_timer,
                   runs, stop_seen, finished_at_stop, started_after_stop, results_base>>

\* a pool thread takes the oldest queued work item and, the future not being
\* cancelled, starts _verify_email_concurrent on it
WorkerStart(i) ==
    /\ run_pc \in {"wait", "check", "cancel", "shutdown"}
    /\ i \in Futures
    /\ future_state[i] = "pending"
    /\ \A j \in Futures : j < i => future_state[j] # "pending"
    /\ Cardinality(Running) < VerifyWorkers(all_emails)
    /\ future_state' = [future_state EXCEPT ![i] = "running"]
    /\ started_after_stop' = IF stop_seen THEN started_after_stop \cup {i}
                             ELSE started_after_stop
    /\ UNCHANGED <<crawlerAndRank, max_workers, db_emails, email_sources, task_raised, stop_accepted, scraping_status, stop_scraping, results, run_pc,
                   all_emails, future_result, yielded, current_future, cancel_i,
                   reset_timer, runs, stop_seen, finished_at_stop, results_base>>

\* _verify_email_concurrent 828-869: the address is verified and stored, and the
\* result dict returned
WorkerFinish(i) ==
    /\ i \in Futures
    /\ future_state[i] = "running"
    /\ \E out \in VerifierOutcomes :
         /\ future_result' =
                [future_result EXCEPT ![i] = _verify_email_concurrent(all_emails[i], out)]
         /\ db_emails' =
                IF out.raises THEN db_emails
                ELSE {row \in db_emails : row.email # all_emails[i]}
                     \cup {[email |-> all_emails[i], source |-> stored_source(all_emails[i])]}
         /\ task_raised' = IF out.raises THEN task_raised \cup {i} ELSE task_raised
    /\ future_state' = [future_state EXCEPT ![i] = "finished"]
    /\ UNCHANGED <<crawlerAndRank, max_workers, email_sources, stop_accepted,
                   scraping_status, stop_scraping, results, run_pc, all_emails, yielded,
                   current_future, cancel_i, reset_timer, runs, stop_seen,
                   finished_at_stop, started_after_stop, results_base>>

\* "for future in as_completed(future_to_email)": the next finished or cancelled
\* future, each once; the loop ends when all were yielded
NextCompleted ==
    /\ run_pc = "wait"
    /\ IF yielded = Futures
       THEN /\ run_pc' = "finish"
            /\ UNCHANGED <<yielded, current_future>>
       ELSE \E i \in Futures \ yielded :
              /\ future_state[i] \in {"finished", "cancelled"}
              /\ current_future' = i
              /\ yielded' = yielded \cup {i}
              /\ run_pc' = "check"
    /\ UNCHANGED <<crawlerAndRank, max_workers, db_emails, email_sources, task_raised, stop_accepted, scraping_status, stop_scraping, results, all_emails,
                   future_state, future_result, cancel_i, reset_timer, runs,
                   stop_seen, finished_at_stop, started_after_stop, results_base>>

\* the loop body, 720-745: the stop flag is polled, else the result is appended
CollectOrStop ==
    /\ run_pc = "check"
    /\ IF stop_scraping
       THEN /\ scraping_status' = "stopped"
            /\ stop_seen' = TRUE
            /\ finished_at_stop' = {i \in Futures : future_state[i] = "finished"}
            /\ cancel_i' = 1
            /\ run_pc' = "cancel"
            /\ UNCHANGED results
       ELSE \* "result = future.result()" raises what the task raised (line 743)
            /\ results' = IF future_result[current_future].status = "raised"
                           THEN results
                           ELSE Append(results, future_result[current_future])
            /\ run_pc' = "wait"
            /\ UNCHANGED <<scraping_status, stop_seen, finished_at_stop, cancel_i>>
    /\ UNCHANGED <<crawlerAndRank, max_workers, db_emails, email_sources, task_raised, stop_accepted, stop_scraping, all_emails, future_state, future_result,
                   yielded, current_future, reset_timer, runs, started_after_stop,
                   results_base>>

\* Future.cancel(): only a future that is still queued is cancelled
Cancelled(state) == IF state = "pending" THEN "cancelled" ELSE state

\* "for f in future_to_email: f.cancel()", one future at a time, then "return"
CancelNext ==
    /\ run_pc = "cancel"
    /\ IF cancel_i > Len(all_emails)
       THEN /\ run_pc' = "shutdown"
            /\ UNCHANGED <<future_state, cancel_i>>
       ELSE /\ future_state' = [future_state EXCEPT ![cancel_i] = Cancelled(@)]
            /\ cancel_i' = cancel_i + 1
            /\ UNCHANGED run_pc
    /\ UNCHANGED <<crawlerAndRank, max_workers, db_emails, email_sources, task_raised, stop_accepted, scraping_status, stop_scraping, results, all_emails,
                   future_result, yielded, current_future, reset_timer, runs,
                   stop_seen, finished_at_stop, started_after_stop, results_base>>

\* leaving "with ThreadPoolExecutor(...)" on return: shutdown(wait=True) joins the
\* pool threads, which first finish what they run
PoolShutdown ==
    /\ run_pc = "shutdown"
    /\ \A i \in Futures : future_state[i] \notin {"pending", "running"}
    /\ run_pc' = "ended"
    /\ UNCHANGED <<crawlerAndRank, max_workers, db_emails, email_sources, task_raised, stop_accepted, scraping_status, stop_scraping, results, all_emails,
                   future_state, future_result, yielded, current_future, cancel_i,
                   reset_timer, runs, stop_seen, finished_at_stop, started_after_stop,
                   results_base>>

\* 747-783: the run completes and arms the timer that resets the status
RunCompleted ==
    /\ run_pc = "finish"
    /\ scraping_status' = "completed"
    /\ reset_timer' = TRUE
    /\ run_pc' = "ended"
    /\ UNCHANGED <<crawlerAndRank, max_workers, db_emails, email_sources, task_raised, stop_accepted, stop_scraping, results, all_emails, future_state,
                   future_result, yielded, current_future, cancel_i, runs,
                   stop_seen, finished_at_stop, started_after_stop, results_base>>

\* reset_status, 775-779, five seconds later
ResetStatusTimer ==
    /\ reset_timer
    /\ scraping_status' = "idle"
    /\ reset_timer' = FALSE
    /\ UNCHANGED <<crawlerAndRank, max_workers, db_emails, email_sources, task_raised, stop_accepted, stop_scraping, results, run_pc, all_emails, future_state,
                   future_result, yielded, current_future, cancel_i, runs,
                   stop_seen, finished_at_stop, started_after_stop, results_base>>

NextPipeline ==
    \/ ScrapeRequest
    \/ StopRequest
    \/ RunInit
    \/ Gather
    \/ \E i \in 1..Len(EmailOrder) : WorkerStart(i)
    \/ \E i \in 1..Len(EmailOrder) : WorkerFinish(i)
    \/ NextCompleted
    \/ CollectOrStop
    \/ CancelNext
    \/ PoolShutdown
    \/ RunCompleted
    \/ ResetStatusTimer

SpecPipeline == InitPipeline /\ [][NextPipeline]_vars

\* ---------------------------- two run threads on the dashboard's one crawler
\* the pages the site serves to the two crawls
OverlapPages == { {}, {H_contact, H_about} }

OverlapFetchResults ==
    {[ok |-> FALSE, hrefs |-> {}]} \cup {[ok |-> TRUE, hrefs |-> H] : H \in OverlapPages}

crawlerLocals == <<pc, domain, discovered_urls, urls_to_crawl, current_batch, bi, depth,
                   final_urls, robots_resp, fetch_log, dropped, discovered_order>>
pipelineRest == <<max_workers, stop_accepted, db_emails, email_sources, task_raised,
                  stop_scraping, results, run_pc, all_emails, future_state, future_result,
                  yielded, current_future, cancel_i, reset_timer, runs, stop_seen,
                  finished_at_stop, started_after_stop, results_base>>
overlapFrame == <<rankVars, pureVars, crawlerLocals, pipelineRest>>

\* the dashboard and its crawler after construction (dashboard.py 47-71), with the
\* configuration of the crawler drawn from small sets
InitOverlap ==
    /\ RankIdle
    /\ PipelineOff
    /\ OverlapOff
    /\ ExtraOff
    /\ NormOff
    /\ ScoreOff
    /\ VerifyOff
    /\ max_pages \in 2..3
    /\ max_depth = 1
    /\ bypass_robots \in BOOLEAN
    /\ visited_urls = {}
    /\ crawled_urls = {}
    /\ failed_urls = {}
    /\ pc = "off"
    /\ domain = <<>>
    /\ discovered_urls = {}
    /\ urls_to_crawl = <<>>
    /\ current_batch = <<>>
    /\ bi = 1
    /\ depth = 0
    /\ final_urls = <<>>
    /\ robots_resp = "unfetched"
    /\ fetch_log = <<>>
    /\ dropped = {}
    /\ discovered_order = <<>>

\* POST /api/reset-status (dashboard.py 296-304): the status goes back to "idle"
\* whatever a run thread is doing
ResetStatusRequest ==
    /\ scraping_status # "idle"
    /\ scraping_status' = "idle"
    /\ UNCHANGED <<cfgVars, visited_urls, crawled_urls, failed_urls, crawls, overlapFrame>>

\* POST /api/scrape is accepted (dashboard.py 94-113), run thread t is started and
\* calls self.crawler.crawl_company_website (line 640), which resets the state of
\* the crawler and gives the seed its scheme (crawler.py 75-82)
CrawlStartOf(t, d) ==
    /\ scraping_status = "idle"
    /\ crawls[t].pc = "idle"
    /\ scraping_status' = "scraping"
    /\ visited_urls' = Cleared(visited_urls)
    /\ crawled_urls' = Cleared(crawled_urls)
    /\ failed_urls' = Cleared(failed_urls)
    /\ crawls' = [crawls EXCEPT ![t] =
                    [NoCrawl EXCEPT
                       !.pc = "robots",
                       !.domain = IF StartsWith(d, HTTP) \/ StartsWith(d, HTTPS)
                                  THEN d ELSE HTTPS \o d]]
    /\ UNCHANGED <<cfgVars, overlapFrame>>

\* crawler.py 87-95 in thread t
CheckRobotsOf(t) ==
    LET c == crawls[t]
    IN  /\ c.pc = "robots"
        /\ \E resp \in RobotsResponses :
             crawls' = [crawls EXCEPT ![t] =
                          IF _check_robots_txt(bypass_robots, resp)
                          THEN [c EXCEPT !.urls_to_crawl = <<c.domain>>,
                                         !.discovered_urls = {c.domain},
                                         !.pc = "level"]
                          ELSE [c EXCEPT !.pc = "done"]]
        /\ UNCHANGED <<cfgVars, visited_urls, crawled_urls, failed_urls, scraping_status,
                       overlapFrame>>

\* crawler.py 98-104 in thread t
LevelHeadOf(t) ==
    LET c == crawls[t]
    IN  /\ c.pc = "level"
        /\ crawls' = [crawls EXCEPT ![t] =
                        IF c.depth > max_depth \/ c.urls_to_crawl = <<>>
                           \/ Cardinality(c.discovered_urls) >= max_pages
                        THEN [c EXCEPT !.pc = "final"]
                        ELSE [c EXCEPT !.current_batch = c.urls_to_crawl,
                                       !.urls_to_crawl = Drained(c.urls_to_crawl),
                                       !.bi = 1,
                                       !.pc = "batch"]]
        /\ UNCHANGED <<cfgVars, visited_urls, crawled_urls, failed_urls, scraping_status,
                       overlapFrame>>

\* crawler.py 106-141 in thread t: one turn of "for url in current_batch" on the
\* sets of the crawler, which the other thread works on too
ProcessUrlOf(t) ==
    LET c == crawls[t]
    IN  /\ c.pc = "batch"
        /\ IF c.bi > Len(c.current_batch) \/ Cardinality(c.discovered_urls) >= max_pages
           THEN /\ crawls' = [crawls EXCEPT ![t] =
                                [c EXCEPT !.depth = c.depth + 1, !.pc = "level"]]
                /\ UNCHANGED <<visited_urls, crawled_urls, failed_urls>>
           ELSE LET url == c.current_batch[c.bi]
                IN  IF url \in visited_urls
                    THEN /\ crawls' = [crawls EXCEPT ![t] = [c EXCEPT !.bi = c.bi + 1]]
                         /\ UNCHANGED <<visited_urls, crawled_urls, failed_urls>>
                    ELSE \E content \in OverlapFetchResults :
                           IF ~content.ok
                           THEN /\ failed_urls' = failed_urls \cup {url}
                                /\ crawls' = [crawls EXCEPT ![t] =
                                                [c EXCEPT !.bi = c.bi + 1,
                                                          !.fetched = c.fetched \cup {url}]]
                                /\ UNCHANGED <<visited_urls, crawled_urls>>
                           ELSE /\ visited_urls' = visited_urls \cup {url}
                                /\ crawled_urls' = crawled_urls \cup {url}
                                /\ UNCHANGED failed_urls
                                /\ IF \E h \in content.hrefs : Malformed(h)
                                   THEN crawls' = [crawls EXCEPT ![t] =
                                                     [c EXCEPT !.pc = "done",
                                                               !.final_urls = <<>>,
                                                               !.fetched = c.fetched \cup {url}]]
                                   ELSE \E order \in Perms(_extract_links(content.hrefs, c.domain)) :
                                          LET filtered_links ==
                                                  _filter_and_prioritize_links(
                                                      order, c.domain, visited_urls', failed_urls)
                                              added == AddLinks(filtered_links, c.discovered_urls,
                                                                c.urls_to_crawl, c.depth,
                                                                max_pages, max_depth)
                                          IN  crawls' = [crawls EXCEPT ![t] =
                                                           [c EXCEPT
                                                              !.discovered_urls = added.disc,
                                                              !.urls_to_crawl = added.queue,
                                                              !.bi = c.bi + 1,
                                                              !.fetched = c.fetched \cup {url}]]
        /\ UNCHANGED <<cfgVars, scraping_status, overlapFrame>>

\* crawler.py 143-148 in thread t
FinalizeOf(t) ==
    LET c == crawls[t]
    IN  /\ c.pc = "final"
        /\ \E order \in Perms(c.discovered_urls) :
             crawls' = [crawls EXCEPT ![t] =
                          [c EXCEPT !.final_urls = _prioritize_urls(order, max_pages),
                                    !.pc = "done"]]
        /\ UNCHANGED <<cfgVars, visited_urls, crawled_urls, failed_urls, scraping_status,
                       overlapFrame>>

NextOverlap ==
    \/ ResetStatusRequest
    \/ \E t \in Invocations, d \in Seeds : CrawlStartOf(t, d)
    \/ \E t \in Invocations : CheckRobotsOf(t)
    \/ \E t \in Invocations : LevelHeadOf(t)
    \/ \E t \in Invocations : ProcessUrlOf(t)
    \/ \E t \in Invocations : FinalizeOf(t)

SpecOverlap == InitOverlap /\ [][NextOverlap]_vars

\* ---------------------------------------------------------- _normalize_email
\* here a string is the sequence of its characters
MaxNormLen == 3

\* the characters of the strings handed to _normalize_email
NormChars == {" ", "(", ")", "@", ".", "a", "A"}

\* what \s matches among them
Whitespace == {" "}

Strings(chars, n) == UNION {[1..k -> chars] : k \in 0..n}

RECURSIVE LStrip(_, _)
LStrip(str, chars) ==
    IF str # <<>> /\ Head(str) \in chars THEN LStrip(Tail(str), chars) ELSE str

RECURSIVE RStrip(_, _)
RStrip(str, chars) ==
    IF str # <<>> /\ str[Len(str)] \in chars
    THEN RStrip(SubSeq(str, 1, Len(str) - 1), chars)
    ELSE str

\* str.strip(chars)
Strip(str, chars) == RStrip(LStrip(str, chars), chars)

\* the characters of str at the indices idx, in their order
RECURSIVE Pick(_, _)
Pick(str, idx) ==
    IF idx = {} THEN <<>>
    ELSE LET m == CHOOSE i \in idx : \A j \in idx : i <= j
         IN  <<str[m]>> \o Pick(str, idx \ {m})

\* re.sub(r'\s*c\s*', 'c', str): every run of whitespace next to a c goes
SubSpacesAround(str, c) ==
    LET between(i, j) == IF i < j THEN i..(j - 1) ELSE (j + 1)..i
        dropped_at(i) ==
            /\ str[i] \in Whitespace
            /\ \E j \in DOMAIN str :
                 str[j] = c /\ \A k \in between(i, j) : str[k] \in Whitespace
    IN  Pick(str, {i \in DOMAIN str : ~dropped_at(i)})

\* str.lower() on characters
LowerChar(ch) ==
    CASE ch = "A" -> "a"
      [] ch = "B" -> "b"
      [] ch = "C" -> "c"
      [] ch = "D" -> "d"
      [] ch = "E" -> "e"
      [] ch = "F" -> "f"
      [] ch = "G" -> "g"
      [] ch = "H" -> "h"
      [] ch = "I" -> "i"
      [] ch = "J" -> "j"
      [] ch = "K" -> "k"
      [] ch = "L" -> "l"
      [] ch = "M" -> "m"
      [] ch = "N" -> "n"
      [] ch = "O" -> "o"
      [] ch = "P" -> "p"
      [] ch = "Q" -> "q"
      [] ch = "R" -> "r"
      [] ch = "S" -> "s"
      [] ch = "T" -> "t"
      [] ch = "U" -> "u"
      [] ch = "V" -> "v"
      [] ch = "W" -> "w"
      [] ch = "X" -> "x"
      [] ch = "Y" -> "y"
      [] ch = "Z" -> "z"
      [] OTHER -> ch

_normalize_email(email) ==
    IF email = <<>> THEN <<>>
    ELSE LET no_parens == Strip(email, {"(", ")"})
             at_cleaned == SubSpacesAround(no_parens, "@")
             dots_cleaned == SubSpacesAround(at_cleaned, ".")
             stripped == Strip(dots_cleaned, Whitespace)
         IN  [i \in DOMAIN stripped |-> LowerChar(stripped[i])]

notNorm == <<cfgVars, crawlVars, rankVars, pipeVars, overlapVars, scoreVars, verifyVars, extraVars>>

InitNormalize ==
    /\ CrawlerOff
    /\ RankIdle
    /\ PipelineOff
    /\ OverlapOff
    /\ ExtraOff
    /\ ScoreOff
    /\ VerifyOff
    /\ norm_pc = "input"
    /\ norm_in \in Strings(NormChars, MaxNormLen)
    /\ norm_out = <<>>
    /\ norm_twice = <<>>

\* _normalize_email(x)
Normalize ==
    /\ norm_pc = "input"
    /\ norm_out' = _normalize_email(norm_in)
    /\ norm_pc' = "once"
    /\ UNCHANGED <<norm_in, norm_twice, notNorm>>

\* _normalize_email of what it returned
NormalizeAgain ==
    /\ norm_pc = "once"
    /\ norm_twice' = _normalize_email(norm_out)
    /\ norm_pc' = "twice"
    /\ UNCHANGED <<norm_in, norm_out, notNorm>>

NextNormalize == Normalize \/ NormalizeAgain

SpecNormalize == InitNormalize /\ [][NextNormalize]_vars

\* ------------------------------------------------------------- EmailVerifier
\* here too a string is the sequence of its characters
MaxAddrParts == 3

LowerCase ==
    {"a", "b", "c", "d", "e", "f", "g", "h", "i", "j", "k", "l", "m", "n", "o", "p", "q", "r", "s", "t", "u", "v", "w", "x", "y", "z"}
UpperCase ==
    {"A", "B", "C", "D", "E", "F", "G", "H", "I", "J", "K", "L", "M", "N", "O", "P", "Q", "R", "S", "T", "U", "V", "W", "X", "Y", "Z"}
Digits == {"0", "1", "2", "3", "4", "5", "6", "7", "8", "9"}
Alnum == LowerCase \cup UpperCase \cup Digits

\* the pieces the addresses handed to verify_email are put together from
AddrParts ==
    { <<"i", "n", "f", "o">>,
      <<"@">>,
      <<" ">>,
      <<"a", ".", ".", "b">>,
      <<"g", "m", "a", "i", "l", ".", "c", "o", "m">>,
      <<"G", "m", "a", "i", "l", ".", "c", "o", "m">>,
      <<"1", "0", "m", "i", "n", "u", "t", "e", "m", "a", "i", "l", ".", "c", "o", "m">>,
      <<"m", "y", "t", "e", "m", "p", "m", "a", "i", "l", ".", "i", "o">>,
      <<"x", "1", "2", "3", "4", ".", "i", "o">>,
      <<"b", ".", "c">>,
      <<"b", ".", "c", "o">>,
      <<"b", ".", "c", "o", "\n">>,
      [i \in 1..65 |-> "a"] }

RECURSIVE Concat(_)
Concat(parts) == IF parts = <<>> THEN <<>> ELSE Head(parts) \o Concat(Tail(parts))

Addresses(n) == UNION {{Concat(parts) : parts \in [1..k -> AddrParts]} : k \in 0..n}

LowerStr(str) == [i \in DOMAIN str |-> LowerChar(str[i])]

\* email.split('@'): the pieces between the "@"
RECURSIVE Split(_, _)
Split(str, sep) ==
    LET i == FirstOf(str, {sep}, 1)
    IN  IF i > Len(str) THEN <<str>>
        ELSE <<SubSeq(str, 1, i - 1)>> \o Split(SubSeq(str, i + 1, Len(str)), sep)

\* ^[a-zA-Z0-9]([a-zA-Z0-9._+-]*[a-zA-Z0-9])?@ ...
LocalMatches(local) ==
    /\ local # <<>>
    /\ local[1] \in Alnum
    /\ local[Len(local)] \in Alnum
    /\ \A k \in DOMAIN local : local[k] \in Alnum \cup {".", "_", "+", "-"}

\* ... @[a-zA-Z0-9]([a-zA-Z0-9.-]*[a-zA-Z0-9])?\.[a-zA-Z]{2,}
DomainMatches(dom) ==
    \E j \in DOMAIN dom :
        LET name == SubSeq(dom, 1, j - 1)
            tld == SubSeq(dom, j + 1, Len(dom))
        IN  /\ dom[j] = "."
            /\ Len(tld) >= 2
            /\ \A k \in DOMAIN tld : tld[k] \in LowerCase \cup UpperCase
            /\ name # <<>>
            /\ name[1] \in Alnum
            /\ name[Len(name)] \in Alnum
            /\ \A k \in DOMAIN name : name[k] \in Alnum \cup {".", "-"}

\* self.email_pattern.match(email): "$" matches at the end of the string and also
\* before a newline that ends it
email_pattern_match(email) ==
    LET text == IF email # <<>> /\ email[Len(email)] = "\n"
                THEN SubSeq(email, 1, Len(email) - 1) ELSE email
    IN  \E i \in DOMAIN text :
            /\ text[i] = "@"
            /\ LocalMatches(SubSeq(text, 1, i - 1))
            /\ DomainMatches(SubSeq(text, i + 1, Len(text)))

_validate_email_format(email) ==
    IF email = <<>> THEN [ok |-> FALSE, reason |-> "Empty or invalid input"]
    ELSE IF Count(email, "@") # 1
    THEN [ok |-> FALSE, reason |-> "Invalid email structure"]
    ELSE LET local == Split(email, "@")[1]
             dom == Split(email, "@")[2]
             labels == Split(dom, ".")
             tld == labels[Len(labels)]
         IN  IF local = <<>> \/ Len(local) > 64
             THEN [ok |-> FALSE, reason |-> "Invalid local part"]
             ELSE IF dom = <<>> \/ Len(dom) > 253
             THEN [ok |-> FALSE, reason |-> "Invalid domain part"]
             ELSE IF Contains(email, <<".", ".">>)
             THEN [ok |-> FALSE, reason |-> "Consecutive dots not allowed"]
             ELSE IF ~email_pattern_match(email)
             THEN [ok |-> FALSE, reason |-> "Invalid characters or format"]
             ELSE IF Count(dom, ".") = 0
             THEN [ok |-> FALSE, reason |-> "Domain must have TLD"]
             ELSE IF Len(tld) < 2
             THEN [ok |-> FALSE, reason |-> "TLD too short"]
             ELSE [ok |-> TRUE, reason |-> "Valid format"]

disposable_domains ==
    { <<"1", "0", "m", "i", "n", "u", "t", "e", "m", "a", "i", "l", ".", "c", "o", "m">>,
      <<"t", "e", "m", "p", "m", "a", "i", "l", ".", "o", "r", "g">>,
      <<"g", "u", "e", "r", "r", "i", "l", "l", "a", "m", "a", "i", "l", ".", "c", "o", "m">>,
      <<"m", "a", "i", "l", "i", "n", "a", "t", "o", "r", ".", "c", "o", "m">>,
      <<"t", "h", "r", "o", "w", "a", "w", "a", "y", ".", "e", "m", "a", "i", "l">>,
      <<"t", "e", "m", "p", "-", "m", "a", "i", "l", ".", "o", "r", "g">>,
      <<"g", "e", "t", "n", "a", "d", "a", ".", "c", "o", "m">>,
      <<"m", "a", "i", "l", "d", "r", "o", "p", ".", "c", "c">>,
      <<"y", "o", "p", "m", "a", "i", "l", ".", "c", "o", "m">>,
      <<"t", "e", "m", "p", "a", "i", "l", ".", "c", "o", "m">>,
      <<"s", "h", "a", "r", "k", "l", "a", "s", "e", "r", "s", ".", "c", "o", "m">>,
      <<"g", "u", "e", "r", "r", "i", "l", "l", "a", "m", "a", "i", "l", "b", "l", "o", "c", "k", ".", "c", "o", "m">> }

reputable_domains ==
    { <<"g", "m", "a", "i", "l", ".", "c", "o", "m">>,
      <<"y", "a", "h", "o", "o", ".", "c", "o", "m">>,
      <<"o", "u", "t", "l", "o", "o", "k", ".", "c", "o", "m">>,
      <<"h", "o", "t", "m", "a", "i", "l", ".", "c", "o", "m">>,
      <<"i", "c", "l", "o", "u", "d", ".", "c", "o", "m">>,
      <<"a", "o", "l", ".", "c", "o", "m">>,
      <<"p", "r", "o", "t", "o", "n", "m", "a", "i", "l", ".", "c", "o", "m">>,
      <<"z", "o", "h", "o", ".", "c", "o", "m">>,
      <<"f", "a", "s", "t", "m", "a", "i", "l", ".", "c", "o", "m">> }

\* r'temp.*mail', r'throw.*away', r'fake.*mail', r'test.*mail', r'no.*reply',
\* r'noreply', r'do.*not.*reply': the words of each pattern
disposable_patterns ==
    { <<<<"t", "e", "m", "p">>, <<"m", "a", "i", "l">>>>,
      <<<<"t", "h", "r", "o", "w">>, <<"a", "w", "a", "y">>>>,
      <<<<"f", "a", "k", "e">>, <<"m", "a", "i", "l">>>>,
      <<<<"t", "e", "s", "t">>, <<"m", "a", "i", "l">>>>,
      <<<<"n", "o">>, <<"r", "e", "p", "l", "y">>>>,
      <<<<"n", "o", "r", "e", "p", "l", "y">>>>,
      <<<<"d", "o">>, <<"n", "o", "t">>, <<"r", "e", "p", "l", "y">>>> }

\* the words follow one another from index start on, with ".*" between them,
\* which matches no newline
RECURSIVE Follows(_, _, _)
Follows(str, words, start) ==
    IF words = <<>> THEN TRUE
    ELSE LET w == Head(words)
         IN  \E i \in start..(Len(str) - Len(w) + 1) :
                 /\ SubSeq(str, i, i + Len(w) - 1) = w
                 /\ \A k \in start..(i - 1) : str[k] # "\n"
                 /\ Follows(str, Tail(words), i + Len(w))

\* re.search(pattern, domain, re.IGNORECASE)
Search(str, words) ==
    LET low == LowerStr(str)
        first == Head(words)
    IN  \E i \in 1..(Len(low) - Len(first) + 1) :
            /\ SubSeq(low, i, i + Len(first) - 1) = first
            /\ Follows(low, Tail(words), i + Len(first))

\* a check that knows the denylist only
check_disposable_denylist_only(dom) ==
    IF dom \in disposable_domains
    THEN [disposable |-> TRUE, reason |-> "Known disposable domain"]
    ELSE [disposable |-> FALSE, reason |-> "Not disposable"]

_check_disposable_email(dom) ==
    IF dom \in disposable_domains
    THEN [disposable |-> TRUE, reason |-> "Known disposable domain"]
    ELSE IF \E pattern \in disposable_patterns : Search(dom, pattern)
    THEN [disposable |-> TRUE, reason |-> "Disposable pattern detected"]
    ELSE [disposable |-> FALSE, reason |-> "Not disposable"]

\* the characters str[i..j] exist and are all of the class
AllIn(str, i, j, class) == j <= Len(str) /\ \A k \in i..j : str[k] \in class

\* r'[0-9]{4,}', r'[a-z]{1,2}[0-9]{3,}', r'[0-9]{3,}[a-z]{1,2}'
Suspicious(dom) ==
    \E i \in DOMAIN dom :
        \/ AllIn(dom, i, i + 3, Digits)
        \/ dom[i] \in LowerCase /\ AllIn(dom, i + 1, i + 3, Digits)
        \/ AllIn(dom, i, i + 2, Digits) /\ AllIn(dom, i + 3, i + 3, LowerCase)

_check_domain_reputation(dom) ==
    IF dom \in reputable_domains THEN 90
    ELSE IF Suspicious(dom) THEN 20
    ELSE IF Len(dom) < 5 THEN 30
    ELSE IF Len(dom) > 30 THEN 40
    ELSE 60

Min(a, b) == IF a < b THEN a ELSE b
Max(a, b) == IF a > b THEN a ELSE b

\* a score that forgets what format, MX and SMTP add
confidence_reputation_only(format_valid, mx_valid, smtp_valid, reputation_score, dom) ==
    Min(Max(Min(reputation_score, 30)
            + (IF dom \in reputable_domains THEN 10 ELSE 0)
            - (IF Len(dom) < 5 \/ Len(dom) > 30 THEN 10 ELSE 0), 0), 100)

\* a score that adds nothing for the SMTP check
confidence_without_smtp_bonus(format_valid, mx_valid, smtp_valid, reputation_score, dom) ==
    IF ~format_valid THEN 0
    ELSE IF ~mx_valid THEN 0
    ELSE Min(Max(20 + 30
                 + Min(reputation_score, 30)
                 + (IF dom \in reputable_domains THEN 10 ELSE 0)
                 - (IF Len(dom) < 5 \/ Len(dom) > 30 THEN 10 ELSE 0), 0), 100)

\* a score without the deduction for a very short or a very long domain
confidence_without_length_penalty(format_valid, mx_valid, smtp_valid, reputation_score, dom) ==
    IF ~format_valid THEN 0
    ELSE IF ~mx_valid THEN 0
    ELSE Min(Max(20 + 30
                 + (IF smtp_valid THEN 20 ELSE 0)
                 + Min(reputation_score, 30)
                 + (IF dom \in reputable_domains THEN 10 ELSE 0), 0), 100)

_calculate_enhanced_confidence(format_valid, mx_valid, smtp_valid, reputation_score, dom) ==
    IF ~format_valid THEN 0
    ELSE IF ~mx_valid THEN 0
    ELSE Min(Max(20 + 30
                 + (IF smtp_valid THEN 20 ELSE 0)
                 + Min(reputation_score, 30)
                 + (IF dom \in reputable_domains THEN 10 ELSE 0)
                 - (IF Len(dom) < 5 \/ Len(dom) > 30 THEN 10 ELSE 0), 0), 100)

\* _check_mx_record: what the resolver says about the domain
MxAnswers == BOOLEAN

\* a verifier that looks the MX record up before it checks for a disposable domain
verify_email_mx_before_disposable(email, mock, mx_found) ==
    LET format == _validate_email_format(email)
    IN  IF ~format.ok
        THEN [is_valid |-> FALSE, confidence |-> 0,
              reason |-> <<"Format invalid", format.reason>>, asked |-> FALSE,
              stages |-> <<"format">>]
        ELSE LET dom == LowerStr(Split(email, "@")[2])
                 disposable_check == _check_disposable_email(dom)
                 reputation_score == _check_domain_reputation(dom)
                 mx_valid == IF mock THEN TRUE ELSE mx_found
                 confidence == _calculate_enhanced_confidence(
                                   TRUE, mx_valid, TRUE, reputation_score, dom)
             IN  IF ~mx_valid
                 THEN [is_valid |-> FALSE, confidence |-> 0,
                       reason |-> <<"MX check failed">>, asked |-> TRUE,
                       stages |-> <<"format", "mx">>]
                 ELSE IF disposable_check.disposable
                 THEN [is_valid |-> FALSE, confidence |-> 10,
                       reason |-> <<"Disposable email", disposable_check.reason>>,
                       asked |-> ~mock, stages |-> <<"format", "mx", "disposable">>]
                 ELSE [is_valid |-> confidence > 30, confidence |-> confidence,
                       reason |-> <<"Format: OK", "MX: OK", "SMTP: OK">>
                                  \o (IF reputation_score > 0 THEN <<"Reputation">> ELSE <<>>)
                                  \o <<"Not disposable">>,
                       asked |-> ~mock,
                       stages |-> <<"format", "mx", "disposable", "reputation">>]

\* verify_email(email) of a verifier with this mock_dns setting, when the resolver
\* would answer mx_found; asked tells whether _check_mx_record was called
verify_email(email, mock, mx_found) ==
    LET format == _validate_email_format(email)
    IN  IF ~format.ok
        THEN [is_valid |-> FALSE, confidence |-> 0,
              reason |-> <<"Format invalid", format.reason>>, asked |-> FALSE,
              stages |-> <<"format">>]
        ELSE LET dom == LowerStr(Split(email, "@")[2])
                 disposable_check == _check_disposable_email(dom)
                 reputation_score == _check_domain_reputation(dom)
                 mx_valid == IF mock THEN TRUE ELSE mx_found
                 confidence == _calculate_enhanced_confidence(
                                   TRUE, mx_valid, TRUE, reputation_score, dom)
             IN  IF disposable_check.disposable
                 THEN [is_valid |-> FALSE, confidence |-> 10,
                       reason |-> <<"Disposable email", disposable_check.reason>>,
                       asked |-> FALSE, stages |-> <<"format", "disposable">>]
                 ELSE IF ~mx_valid
                 THEN [is_valid |-> FALSE, confidence |-> 0,
                       reason |-> <<"MX check failed">>, asked |-> TRUE,
                       stages |-> <<"format", "disposable", "reputation", "mx">>]
                 ELSE [is_valid |-> confidence > 30, confidence |-> confidence,
                       reason |-> <<"Format: OK", "MX: OK", "SMTP: OK">>
                                  \o (IF reputation_score > 0 THEN <<"Reputation">> ELSE <<>>)
                                  \o <<"Not disposable">>,
                       asked |-> ~mock,
                       stages |-> <<"format", "disposable", "reputation", "mx">>]

notVerify == <<cfgVars, crawlVars, rankVars, pipeVars, overlapVars, normVars, scoreVars, extraVars>>

\* one address at every domain of the two lists of __init__
ListedAddresses ==
    {<<"i", "n", "f", "o", "@">> \o dom : dom \in disposable_domains \cup reputable_domains}

\* an address at a domain of 34 characters with a digit run, and one without
LongAddresses ==
    { <<"i", "n", "f", "o", "@", "x", "1", "2", "3", "4">>
          \o [i \in 1..26 |-> "a"] \o <<".", "i", "o">>,
      <<"i", "n", "f", "o", "@">> \o [i \in 1..31 |-> "a"] \o <<".", "i", "o">> }

InitVerify ==
    /\ CrawlerOff
    /\ RankIdle
    /\ PipelineOff
    /\ OverlapOff
    /\ ExtraOff
    /\ NormOff
    /\ ScoreOff
    /\ verify_pc = "input"
    /\ mock_dns \in BOOLEAN
    /\ verify_in \in Addresses(MaxAddrParts) \cup ListedAddresses \cup LongAddresses
    /\ verify_out = <<>>
    /\ mx_asked = FALSE
    /\ verify_stages = <<>>
    /\ mx_record = FALSE

\* EmailVerifier.verify_email(email)
VerifyEmail ==
    /\ verify_pc = "input"
    /\ \E mx_found \in MxAnswers :
         LET out == verify_email(verify_in, mock_dns, mx_found)
         IN  /\ verify_out' = [is_valid |-> out.is_valid, confidence |-> out.confidence,
                               reason |-> out.reason]
             /\ mx_asked' = out.asked
             /\ verify_stages' = out.stages
             /\ mx_record' = mx_found
    /\ verify_pc' = "done"
    /\ UNCHANGED <<mock_dns, verify_in, notVerify>>

NextVerify == VerifyEmail

SpecVerify == InitVerify /\ [][NextVerify]_vars

\* ------------------------------------- EmailExtractor.get_email_confidence_score
\* the pieces of the addresses that are scored, and the target domains
ScoreParts ==
    { <<"s", "A", "l", "e", "s">>,
      <<"b", "o", "b">>,
      <<"@">>,
      <<"a", ".", "c", "o", "m">>,
      <<"A", ".", "c", "o", "m">>,
      <<"b", ".", "o", "r", "g">> }

ScoreEmails == UNION {{Concat(parts) : parts \in [1..k -> ScoreParts]} : k \in 0..MaxAddrParts}

ScoreDomains ==
    {<<>>, <<"a", ".", "c", "o", "m">>, <<"A", ".", "c", "o", "m">>, <<"b", ".", "o", "r", "g">>}

\* the three tags of extract_all_emails and a string that is none of them
Sources == {"mailto_link", "found", "generated", "other"}

common_patterns ==
    { <<"i", "n", "f", "o">>,
      <<"c", "o", "n", "t", "a", "c", "t">>,
      <<"h", "e", "l", "l", "o">>,
      <<"s", "u", "p", "p", "o", "r", "t">>,
      <<"s", "a", "l", "e", "s">>,
      <<"a", "d", "m", "i", "n">> }

\* the score built from the same parts, returned as it is
confidence_score_uncapped(email, source, dom) ==
    LET base_score == CASE source = "mailto_link" -> 90
                        [] source = "found" -> 70
                        [] source = "generated" -> 30
                        [] OTHER -> 0
        has_at == Count(email, "@") > 0
        email_domain == IF has_at THEN Split(email, "@")[2] ELSE <<>>
        email_local == IF has_at THEN Split(email, "@")[1] ELSE <<>>
        domain_bonus == IF LowerStr(email_domain) = LowerStr(dom) THEN 10 ELSE 0
        pattern_bonus ==
            IF \E pattern \in common_patterns : Contains(LowerStr(email_local), pattern)
            THEN 5 ELSE 0
    IN  base_score + domain_bonus + pattern_bonus

get_email_confidence_score(email, source, dom) ==
    LET base_score == CASE source = "mailto_link" -> 90
                        [] source = "found" -> 70
                        [] source = "generated" -> 30
                        [] OTHER -> 0
        has_at == Count(email, "@") > 0
        email_domain == IF has_at THEN Split(email, "@")[2] ELSE <<>>
        email_local == IF has_at THEN Split(email, "@")[1] ELSE <<>>
        domain_bonus == IF LowerStr(email_domain) = LowerStr(dom) THEN 10 ELSE 0
        pattern_bonus ==
            IF \E pattern \in common_patterns : Contains(LowerStr(email_local), pattern)
            THEN 5 ELSE 0
    IN  Min(base_score + domain_bonus + pattern_bonus, 100)

notScore == <<cfgVars, crawlVars, rankVars, pipeVars, overlapVars, normVars, verifyVars, extraVars>>

InitScore ==
    /\ CrawlerOff
    /\ RankIdle
    /\ PipelineOff
    /\ OverlapOff
    /\ ExtraOff
    /\ NormOff
    /\ VerifyOff
    /\ score_pc = "scoring"
    /\ score_email \in ScoreEmails
    /\ score_domain \in ScoreDomains
    /\ score_out = <<>>

\* one call get_email_confidence_score(email, source, domain); score_out keeps
\* what the calls for this address and domain returned, by source
Score(source) ==
    /\ score_pc = "scoring"
    /\ source \notin DOMAIN score_out
    /\ score_out' = [s \in DOMAIN score_out \cup {source} |->
                        IF s = source
                        THEN get_email_confidence_score(score_email, source, score_domain)
                        ELSE score_out[s]]
    /\ UNCHANGED <<score_pc, score_email, score_domain, notScore>>

NextScore == \E source \in Sources : Score(source)

SpecScore == InitScore /\ [][NextScore]_vars

\* ------------------------------------------- EmailExtractor.generate_common_emails
\* the pieces of the domains candidates are generated for
GenParts ==
    { <<"w", "w", "w", ".">>,
      <<" ">>,
      <<"T", "e", "c", "h">>,
      <<"n", "e", "w", "s">>,
      <<"c", "o", "r", "p">>,
      <<".", "i", "o">> }

GenDomains == UNION {{Concat(parts) : parts \in [1..k -> GenParts]} : k \in 0..MaxAddrParts}

\* the local parts of common_formats, in the order of the list
common_formats ==
    << <<"i", "n", "f", "o">>, <<"c", "o", "n", "t", "a", "c", "t">>,
       <<"h", "e", "l", "l", "o">>, <<"s", "u", "p", "p", "o", "r", "t">>,
       <<"s", "a", "l", "e", "s">>, <<"a", "d", "m", "i", "n">>,
       <<"t", "e", "a", "m">>, <<"o", "f", "f", "i", "c", "e">>,
       <<"h", "e", "l", "p">>, <<"s", "e", "r", "v", "i", "c", "e">>,
       <<"i", "n", "q", "u", "i", "r", "y">>, <<"g", "e", "n", "e", "r", "a", "l">>,
       <<"m", "a", "i", "n">>, <<"p", "r", "i", "m", "a", "r", "y">> >>

\* the industries in the order _detect_industry tests them, each with its
\* keywords and with the local parts of its industry_patterns
industries ==
    << [name |-> "tech",
        keywords |-> {<<"t", "e", "c", "h">>,
                      <<"s", "o", "f", "t", "w", "a", "r", "e">>, <<"a", "p", "p">>,
                      <<"d", "e", "v">>, <<"c", "o", "d", "e">>,
                      <<"d", "i", "g", "i", "t", "a", "l">>, <<"i", "t">>,
                      <<"c", "o", "m", "p", "u", "t", "e", "r">>},
        patterns |-> <<<<"d", "e", "v">>, <<"t", "e", "c", "h">>,
                      <<"e", "n", "g", "i", "n", "e", "e", "r", "i", "n", "g">>,
                      <<"d", "e", "v", "e", "l", "o", "p", "e", "r", "s">>>>],
       [name |-> "media",
        keywords |-> {<<"m", "e", "d", "i", "a">>, <<"n", "e", "w", "s">>,
                      <<"p", "r", "e", "s", "s">>, <<"b", "l", "o", "g">>,
                      <<"c", "o", "n", "t", "e", "n", "t">>,
                      <<"p", "u", "b", "l", "i", "s", "h", "i", "n", "g">>},
        patterns |-> <<<<"p", "r", "e", "s", "s">>, <<"m", "e", "d", "i", "a">>,
                      <<"n", "e", "w", "s">>, <<"e", "d", "i", "t", "o", "r">>>>],
       [name |-> "finance",
        keywords |-> {<<"b", "a", "n", "k">>, <<"f", "i", "n", "a", "n", "c", "e">>,
                      <<"f", "i", "n", "a", "n", "c", "i", "a", "l">>,
                      <<"i", "n", "v", "e", "s", "t", "m", "e", "n", "t">>,
                      <<"c", "a", "p", "i", "t", "a", "l">>,
                      <<"m", "o", "n", "e", "y">>},
        patterns |-> <<<<"f", "i", "n", "a", "n", "c", "e">>,
                      <<"a", "c", "c", "o", "u", "n", "t", "i", "n", "g">>,
                      <<"b", "i", "l", "l", "i", "n", "g">>,
                      <<"p", "a", "y", "m", "e", "n", "t", "s">>>>],
       [name |-> "healthcare",
        keywords |-> {<<"h", "e", "a", "l", "t", "h">>,
                      <<"m", "e", "d", "i", "c", "a", "l">>,
                      <<"c", "l", "i", "n", "i", "c">>,
                      <<"h", "o", "s", "p", "i", "t", "a", "l">>,
                      <<"d", "o", "c", "t", "o", "r">>, <<"c", "a", "r", "e">>},
        patterns |-> <<<<"m", "e", "d", "i", "c", "a", "l">>,
                      <<"h", "e", "a", "l", "t", "h">>,
                      <<"p", "a", "t", "i", "e", "n", "t">>,
                      <<"c", "l", "i", "n", "i", "c">>>>],
       [name |-> "education",
        keywords |-> {<<"e", "d", "u">>,
                      <<"u", "n", "i", "v", "e", "r", "s", "i", "t", "y">>,
                      <<"c", "o", "l", "l", "e", "g", "e">>,
                      <<"s", "c", "h", "o", "o", "l">>,
                      <<"a", "c", "a", "d", "e", "m", "y">>,
                      <<"i", "n", "s", "t", "i", "t", "u", "t", "e">>},
        patterns |-> <<<<"a", "c", "a", "d", "e", "m", "i", "c">>,
                      <<"e", "d", "u", "c", "a", "t", "i", "o", "n">>,
                      <<"s", "t", "u", "d", "e", "n", "t">>,
                      <<"f", "a", "c", "u", "l", "t", "y">>>>],
       [name |-> "retail",
        keywords |-> {<<"s", "h", "o", "p">>, <<"s", "t", "o", "r", "e">>,
                      <<"m", "a", "r", "k", "e", "t">>,
                      <<"c", "o", "m", "m", "e", "r", "c", "e">>,
                      <<"r", "e", "t", "a", "i", "l">>, <<"b", "u", "y">>},
        patterns |-> <<<<"s", "t", "o", "r", "e">>, <<"s", "h", "o", "p">>,
                      <<"o", "r", "d", "e", "r", "s">>,
                      <<"c", "u", "s", "t", "o", "m", "e", "r", "s">>>>] >>

\* the first industry one of whose keywords is in the domain, from index i on
RECURSIVE FirstIndustry(_, _, _)
FirstIndustry(order, dom, i) ==
    IF i > Len(order) THEN "general"
    ELSE IF \E keyword \in industries[order[i]].keywords : Contains(dom, keyword)
         THEN industries[order[i]].name
         ELSE FirstIndustry(order, dom, i + 1)

\* a detection that tests media before tech
detect_industry_media_first(dom) == FirstIndustry(<<2, 1, 3, 4, 5, 6>>, dom, 1)

_detect_industry(dom) == FirstIndustry(<<1, 2, 3, 4, 5, 6>>, dom, 1)

\* pattern.format(domain=domain) for a template 'local@{domain}'
Format(local, dom) == local \o <<"@">> \o dom

_generate_industry_emails(dom) ==
    LET industry == _detect_industry(LowerStr(dom))
        found == {i \in DOMAIN industries : industries[i].name = industry}
    IN  IF found = {} THEN <<>>
        ELSE LET patterns == industries[CHOOSE i \in found : TRUE].patterns
             IN  [k \in DOMAIN patterns |-> Format(patterns[k], dom)]

\* the list company_emails; the two short-name addresses go to the local list
\* emails, which is not returned
_generate_company_emails(dom) ==
    LET company_name == Split(dom, ".")[1]
        dot_com == company_name \o <<".", "c", "o", "m">>
    IN  << Format(company_name, dom),
           Format(<<"i", "n", "f", "o">>, dot_com),
           Format(<<"c", "o", "n", "t", "a", "c", "t">>, dot_com),
           Format(<<"h", "e", "l", "l", "o">>, dot_com) >>

generate_common_emails(dom) ==
    LET stripped == Strip(LowerStr(dom), Whitespace)
        clean_domain == IF StartsWith(stripped, <<"w", "w", "w", ".">>)
                        THEN SubSeq(stripped, 5, Len(stripped))
                        ELSE stripped
    IN  [k \in DOMAIN common_formats |-> Format(common_formats[k], clean_domain)]
        \o _generate_industry_emails(clean_domain)
        \o _generate_company_emails(clean_domain)

notGen == <<cfgVars, crawlVars, rankVars, pipeVars, overlapVars, normVars, scoreVars,
            verifyVars, textVars, paceVars, filterVars, dashVars>>

InitGenerate ==
    /\ CrawlerOff
    /\ RankIdle
    /\ PipelineOff
    /\ OverlapOff
    /\ NormOff
    /\ ScoreOff
    /\ VerifyOff
    /\ TextOff
    /\ PaceOff
    /\ FilterOff
    /\ DashOff
    /\ gen_pc = "input"
    /\ gen_domain \in GenDomains
    /\ gen_out = <<>>
    /\ gen_twice = <<>>

\* EmailExtractor.generate_common_emails(domain)
Generate ==
    /\ gen_pc = "input"
    /\ gen_out' = generate_common_emails(gen_domain)
    /\ gen_pc' = "once"
    /\ UNCHANGED <<gen_domain, gen_twice, notGen>>

\* a second call with the same domain
GenerateAgain ==
    /\ gen_pc = "once"
    /\ gen_twice' = generate_common_emails(gen_domain)
    /\ gen_pc' = "twice"
    /\ UNCHANGED <<gen_domain, gen_out, notGen>>

NextGenerate == Generate \/ GenerateAgain

SpecGenerate == InitGenerate /\ [][NextGenerate]_vars

\* --------------------------------------------- EmailExtractor.extract_all_emails
MaxLabels == 2

\* the pieces a page text is put together from: words before the address, the
\* local part, the "at" between, the labels of the domain each followed by a
\* "dot", the top-level domain, and what follows
Prefixes == {<<>>, <<"C", "o", "n", "t", "a", "c", "t", " ", "u", "s", " ", "a", "t", " ">>}
Users == {<<"j", "a", "n", "e", ".", "d", "o", "e">>, <<"I", "n", "f", "o">>}
BracketAt == {<<" ", "[", "a", "t", "]", " ">>, <<"[", "a", "t", "]">>}
AtForms == BracketAt \cup {<<" ", "a", "t", " ">>}
Labels == {<<"e", "x", "a", "m", "p", "l", "e">>, <<"m", "a", "i", "l">>}
BracketDot == <<" ", "[", "d", "o", "t", "]", " ">>
InnerDots == {BracketDot, <<".">>}
LastDots == {BracketDot, <<" ", "d", "o", "t", " ">>}
Tlds == {<<"c", "o", "m">>, <<"C", "O", "M">>, <<"c">>}
Suffixes == {<<>>, <<" ", "n", "o", "w">>, <<"_">>}

TextParts ==
    UNION {[prefix : Prefixes, user : Users, at : AtForms,
            labels : [1..n -> Labels],
            dots : {d \in [1..n -> InnerDots \cup LastDots] :
                       /\ d[n] \in LastDots
                       /\ \A k \in 1..(n - 1) : d[k] \in InnerDots},
            tld : Tlds, suffix : Suffixes] : n \in 1..MaxLabels}

\* the domain of the pieces from label k on, each label followed by its "dot"
RECURSIVE DomainText(_, _, _)
DomainText(labels, dots, k) ==
    IF k > Len(labels) THEN <<>>
    ELSE labels[k] \o dots[k] \o DomainText(labels, dots, k + 1)

\* the content string
Render(parts) ==
    parts.prefix \o parts.user \o parts.at \o DomainText(parts.labels, parts.dots, 1)
    \o parts.tld \o parts.suffix

\* the soups: none, or a page with mailto anchors, given by their hrefs
Soups ==
    { [given |-> FALSE, hrefs |-> <<>>],
      [given |-> TRUE,
       hrefs |-> << <<"m", "a", "i", "l", "t", "o", ":", "I", "n", "f", "o", "@", "e", "x", "a", "m", "p", "l", "e", ".", "c", "o", "m", "?", "s", "u", "b", "j", "e", "c", "t", "=", "h", "i">>,
                    <<"M", "A", "I", "L", "T", "O", ":", "j", "a", "n", "e", ".", "d", "o", "e", "@", "e", "x", "a", "m", "p", "l", "e", ".", "c", "o", "m">> >>],
      [given |-> TRUE,
       hrefs |-> << <<"m", "a", "i", "l", "t", "o", ":", "j", "a", "n", "e", ".", "d", "o", "e", "@", "e", "x", "a", "m", "p", "l", "e", ".", "c", "o", "m">> >>] }

\* the domain argument: None, or a domain
ExtractDomains == {<<>>, <<"e", "x", "a", "m", "p", "l", "e", ".", "c", "o", "m">>}

\* \w, and the character classes of the patterns
WordChars == Alnum \cup {"_"}
UserClass == Alnum \cup {".", "_", "%", "+", "-"}
DomClass == Alnum \cup {".", "-"}
TldClass == LowerCase \cup UpperCase \cup {"|"}

\* \b before index i
Boundary(str, i) ==
    (i - 1 \in DOMAIN str /\ str[i - 1] \in WordChars)
        # (i \in DOMAIN str /\ str[i] \in WordChars)

\* the last index of the longest run of class characters that starts at i
RECURSIVE RunEnd(_, _, _)
RunEnd(str, i, class) ==
    IF i \in DOMAIN str /\ str[i] \in class THEN RunEnd(str, i + 1, class) ELSE i - 1

\* a literal at index i, under re.I
LitAt(str, i, lit) ==
    /\ i + Len(lit) - 1 <= Len(str)
    /\ LowerStr(SubSeq(str, i, i + Len(lit) - 1)) = lit

\* \b([A-Za-z0-9._%+-]+)\s..at\s..([A-Za-z0-9.-]+)\s..dot\s..([A-Z|a-z]{2,})\b
\* tried at index i, where at and dot are the two literals and min_gap is 1 for
\* \s+ and 0 for \s*; the runs are greedy, and only the last one can give back
ObfMatch(str, i, at, dot, min_gap) ==
    LET u == RunEnd(str, i, UserClass)
        a == RunEnd(str, u + 1, Whitespace) + 1
        b0 == a + Len(at)
        b == RunEnd(str, b0, Whitespace) + 1
        d == RunEnd(str, b, DomClass)
        c == RunEnd(str, d + 1, Whitespace) + 1
        e0 == c + Len(dot)
        e == RunEnd(str, e0, Whitespace) + 1
        z == RunEnd(str, e, TldClass)
        ends == {k \in (e + 1)..z : Boundary(str, k + 1)}
        ok == /\ Boundary(str, i)
              /\ u >= i
              /\ a - (u + 1) >= min_gap
              /\ LitAt(str, a, at)
              /\ b - b0 >= min_gap
              /\ d >= b
              /\ c - (d + 1) >= min_gap
              /\ LitAt(str, c, dot)
              /\ e - e0 >= min_gap
              /\ ends # {}
    IN  IF ~ok THEN [ok |-> FALSE]
        ELSE LET last == CHOOSE k \in ends : \A j \in ends : j <= k
             IN  [ok |-> TRUE, user |-> SubSeq(str, i, u), dom |-> SubSeq(str, b, d),
                  tld |-> SubSeq(str, e, last), whole |-> SubSeq(str, i, last),
                  end |-> last]

\* pattern.findall(content): the matches from index i on, left to right, without
\* overlap
RECURSIVE FindAll(_, _, _, _, _)
FindAll(str, i, at, dot, min_gap) ==
    IF i > Len(str) THEN <<>>
    ELSE LET m == ObfMatch(str, i, at, dot, min_gap)
         IN  IF m.ok THEN <<m>> \o FindAll(str, m.end + 1, at, dot, min_gap)
             ELSE FindAll(str, i + 1, at, dot, min_gap)

PlainMatches(content) == Range(FindAll(content, 1, <<"a", "t">>, <<"d", "o", "t">>, 1))
BracketMatches(content) ==
    Range(FindAll(content, 1, <<"[", "a", "t", "]">>, <<"[", "d", "o", "t", "]">>, 0))

\* the string without a newline that ends it: what "$" lets a pattern stop before
BeforeDollar(str) ==
    IF str # <<>> /\ str[Len(str)] = "\n" THEN SubSeq(str, 1, Len(str) - 1) ELSE str

_is_valid_email(email) ==
    /\ Count(email, "@") = 1
    /\ LET local == Split(email, "@")[1]
           dom == Split(email, "@")[2]
           dom_body == BeforeDollar(dom)
       IN  /\ local # <<>> /\ Len(local) <= 64
           /\ dom # <<>> /\ Len(dom) <= 255
           /\ BeforeDollar(local) # <<>>
           /\ \A k \in DOMAIN BeforeDollar(local) : local[k] \in UserClass
           /\ \E j \in 2..(Len(dom_body) - 2) :
                  /\ dom_body[j] = "."
                  /\ \A k \in 1..(j - 1) : dom_body[k] \in DomClass
                  /\ \A k \in (j + 1)..Len(dom_body) :
                         dom_body[k] \in LowerCase \cup UpperCase

_extract_obfuscated_emails(content) ==
    {LowerStr(email) :
        email \in {e \in {m.user \o <<"@">> \o m.dom \o <<".">> \o m.tld :
                             m \in PlainMatches(content) \cup BracketMatches(content)} :
                      _is_valid_email(e)}}

\* content without "@": the first three email_patterns and the context patterns
\* have a literal "@" and match nothing; the fourth and the fifth are the two
\* obfuscation patterns without groups, whose whole match is normalized and
\* validated
extract_emails_from_content(content) ==
    IF content = <<>> THEN {}
    ELSE LET whole == {m.whole : m \in PlainMatches(content) \cup BracketMatches(content)}
             clean == {_normalize_email(w) : w \in whole}
         IN  {c \in clean : c # <<>> /\ _is_valid_email(c)}
             \cup _extract_obfuscated_emails(content)

\* the hrefs are those of the anchors soup.find_all gives (href matching
\* ^mailto: under re.I)
extract_emails_from_links(hrefs) ==
    LET mailto == <<"m", "a", "i", "l", "t", "o", ":">>
        clean(href) ==
            Strip(LowerStr(Split(SubSeq(href, 8, Len(href)), "?")[1]), Whitespace)
    IN  {clean(hrefs[k]) : k \in {j \in DOMAIN hrefs :
                                     /\ StartsWith(hrefs[j], mailto)
                                     /\ _is_valid_email(clean(hrefs[j]))}}

extract_all_emails(content, soup, dom) ==
    LET content_emails == extract_emails_from_content(content)
        link_emails == IF soup.given THEN extract_emails_from_links(soup.hrefs) ELSE {}
        generated_emails == IF dom # <<>> THEN Range(generate_common_emails(dom)) ELSE {}
    IN  [found_emails |-> content_emails \cup link_emails,
         generated_emails |-> generated_emails,
         email_sources |-> [e \in content_emails \cup link_emails \cup generated_emails |->
                              IF e \in generated_emails THEN "generated"
                              ELSE IF e \in link_emails THEN "mailto_link"
                              ELSE "found"]]

notText == <<cfgVars, crawlVars, rankVars, pipeVars, overlapVars, normVars, scoreVars,
             verifyVars, genVars, paceVars, filterVars, dashVars>>

InitExtract ==
    /\ CrawlerOff
    /\ RankIdle
    /\ PipelineOff
    /\ OverlapOff
    /\ NormOff
    /\ ScoreOff
    /\ VerifyOff
    /\ GenOff
    /\ PaceOff
    /\ FilterOff
    /\ DashOff
    /\ text_pc = "input"
    /\ text_parts \in TextParts
    /\ text_soup \in Soups
    /\ text_domain \in ExtractDomains
    /\ text_out = <<>>

\* EmailExtractor.extract_all_emails(content, soup, domain)
ExtractAll ==
    /\ text_pc = "input"
    /\ text_out' = extract_all_emails(Render(text_parts), text_soup, text_domain)
    /\ text_pc' = "done"
    /\ UNCHANGED <<text_parts, text_soup, text_domain, notText>>

NextExtract == ExtractAll

SpecExtract == InitExtract /\ [][NextExtract]_vars

\* ---------------------------------------------------- pacing of the requests
\* crawl_company_website calls _apply_rate_limit before every _fetch_page
\* (crawler.py:113-120).  Time is counted in ticks; rate_limit is a number of ticks.

\* the largest number of requests of one crawl that is followed
MaxFetches == 3

\* the largest rate_limit the crawler is constructed with
MaxInterval == 2

\* the time up to which the work between two statements may take a tick
MaxClock == MaxFetches * MaxInterval

\* time.time() is the system's wall clock: the time really passed plus whatever the
\* clock has been set ahead or back by
Skews == (0 - MaxInterval) .. MaxInterval

time_time == clock + wall_skew

notPace == <<cfgVars, crawlVars, rankVars, pipeVars, overlapVars, normVars, scoreVars,
             verifyVars, genVars, textVars, filterVars, dashVars>>

\* WebCrawler.__init__: self.rate_limit = rate_limit, self.rate_limiter = time.time()
InitPace ==
    /\ CrawlerOff
    /\ RankIdle
    /\ PipelineOff
    /\ OverlapOff
    /\ NormOff
    /\ ScoreOff
    /\ VerifyOff
    /\ GenOff
    /\ TextOff
    /\ FilterOff
    /\ DashOff
    /\ pace_pc = "limit"
    /\ clock = 0
    /\ wall_skew \in Skews
    /\ rate_limit \in 1 .. MaxInterval
    /\ rate_limiter = time_time
    /\ slept = 0
    /\ released_at = <<>>

\* the sleep_time _apply_rate_limit computes from current_time = time.time()
SleepTime(current_time, last, interval) ==
    LET time_since_last == current_time - last
    IN  IF time_since_last < interval THEN interval - time_since_last ELSE 0

\* WebCrawler._apply_rate_limit: time.sleep(sleep_time) lets sleep_time pass, and
\* self.rate_limiter is the reading of time.time() after it
_apply_rate_limit ==
    /\ pace_pc = "limit"
    /\ Len(released_at) < MaxFetches
    /\ \E sleep_time \in {SleepTime(time_time, rate_limiter, rate_limit)} :
         /\ slept' = sleep_time
         /\ clock' = clock + sleep_time
         /\ rate_limiter' = clock + sleep_time + wall_skew
         /\ released_at' = Append(released_at, clock + sleep_time)
    /\ pace_pc' = "fetch"
    /\ UNCHANGED <<wall_skew, rate_limit, notPace>>

\* _rotate_user_agent and _fetch_page of the url: the request and the
\* time.sleep(self.delay) after it take some time, then the loop goes on
FetchPage ==
    /\ pace_pc = "fetch"
    /\ \E took \in 0 .. 1 : clock' = clock + took
    /\ pace_pc' = "limit"
    /\ UNCHANGED <<wall_skew, rate_limit, rate_limiter, slept, released_at, notPace>>

\* the link extraction and filtering after a fetch take time
Elapse ==
    /\ pace_pc = "limit"
    /\ clock < MaxClock
    /\ clock' = clock + 1
    /\ UNCHANGED <<pace_pc, wall_skew, rate_limit, rate_limiter, slept, released_at, notPace>>

\* the system clock is set (by hand or by a time service): time.time() is not
\* monotonic
SetClock ==
    /\ pace_pc \in {"limit", "fetch"}
    /\ \E s \in Skews \ {wall_skew} : wall_skew' = s
    /\ UNCHANGED <<pace_pc, clock, rate_limit, rate_limiter, slept, released_at, notPace>>

NextPace == _apply_rate_limit \/ FetchPage \/ Elapse \/ SetClock

SpecPace == InitPace /\ [][NextPace]_vars

\* ------------------------------------------- _filter_and_prioritize_links
\* the links a filter is handed: links of the site, and links of another host
\* that name the site in their path or their query
RawLinks ==
    { <<"https:", "/", "/", "a.com", "/", "contact">>,
      <<"https:", "/", "/", "a.com", "/", "about">>,
      <<"https:", "/", "/", "a.com", "/", "ADMIN", "/">>,
      <<"https:", "/", "/", "b.org", "/", "contact">>,
      <<"https:", "/", "/", "b.org", "/", "a.com">>,
      <<"https:", "/", "/", "b.org", "/", "share", "?", "u=", "a.com">> }

\* the domain argument: the seed as crawl_company_website passes it on
FilterDomains ==
    { <<"https:", "/", "/", "a.com">>,
      <<"http:", "/", "/", "a.com", "/", "home">> }

notFilter == <<cfgVars, crawlVars, rankVars, pipeVars, overlapVars, normVars, scoreVars,
               verifyVars, genVars, textVars, paceVars, dashVars>>

InitFilter ==
    /\ CrawlerOff
    /\ RankIdle
    /\ PipelineOff
    /\ OverlapOff
    /\ NormOff
    /\ ScoreOff
    /\ VerifyOff
    /\ GenOff
    /\ TextOff
    /\ PaceOff
    /\ DashOff
    /\ flt_pc = "input"
    /\ flt_links \in UNION {[1..n -> RawLinks] : n \in 0..MaxRankLen}
    /\ flt_domain \in FilterDomains
    /\ \E seen \in SUBSET {<<"https:", "/", "/", "a.com", "/", "contact">>} :
         \E visited \in SUBSET seen :
           /\ flt_visited = visited
           /\ flt_failed = seen \ visited
    /\ flt_out = <<>>

\* WebCrawler._filter_and_prioritize_links(links, domain)
Filter ==
    /\ flt_pc = "input"
    /\ flt_out' = _filter_and_prioritize_links(flt_links, flt_domain, flt_visited, flt_failed)
    /\ flt_pc' = "filtered"
    /\ UNCHANGED <<flt_links, flt_domain, flt_visited, flt_failed, notFilter>>

NextFilter == Filter

SpecFilter == InitFilter /\ [][NextFilter]_vars

\* ------------------------------------ EmailScopeDashboard._process_page_concurrent
\* a crawled page: text_parts is its visible text, text_soup its mailto anchors,
\* text_domain the original_domain of the run

\* WebCrawler.get_page_content: soup.get_text() of the fetched page, or None
get_page_content(text, fetched) ==
    IF fetched THEN [given |-> TRUE, text |-> text] ELSE [given |-> FALSE, text |-> <<>>]

\* the pair _process_page_concurrent returns; extract_all_emails is called with the
\* content and the domain, and without a soup
_process_page_concurrent(text, fetched, original_domain) ==
    LET content == get_page_content(text, fetched)
    IN  IF ~content.given
        THEN [found_emails |-> {}, generated_emails |-> {}]
        ELSE LET out == extract_all_emails(content.text, [given |-> FALSE, hrefs |-> <<>>],
                                           original_domain)
             IN  [found_emails |-> out.found_emails,
                  generated_emails |-> out.generated_emails]

InitPage ==
    /\ CrawlerOff
    /\ RankIdle
    /\ PipelineOff
    /\ OverlapOff
    /\ NormOff
    /\ ScoreOff
    /\ VerifyOff
    /\ GenOff
    /\ PaceOff
    /\ FilterOff
    /\ DashOff
    /\ text_pc = "page"
    /\ text_parts \in TextParts
    /\ text_soup \in Soups
    /\ text_domain \in ExtractDomains \ {<<>>}
    /\ text_out = <<>>

\* one task of the extraction pool, and all_emails.update of its two sets
ProcessPage ==
    /\ text_pc = "page"
    /\ \E fetched \in BOOLEAN :
         /\ text_out' = _process_page_concurrent(Render(text_parts), fetched, text_domain)
         /\ text_pc' = IF fetched THEN "processed" ELSE "no_content"
    /\ UNCHANGED <<text_parts, text_soup, text_domain, notText>>

NextPage == ProcessPage

SpecPage == InitPage /\ [][NextPage]_vars

\* --------------------------------------- EmailScopeDB and the dashboard's runs
\* the rows of the tables domains and emails, and the AUTOINCREMENT counters
EmptyDb == [domains |-> {}, emails |-> {}, domain_seq |-> 0, email_seq |-> 0]

\* INSERT OR REPLACE INTO domains (domain, status, updated_at): domain is UNIQUE, so
\* a row of that name is deleted and a new row is inserted under a new id;
\* returns the database and cursor.lastrowid
add_domain(d, name, status) ==
    LET id == d.domain_seq + 1
    IN  [db |-> [d EXCEPT !.domains = {row \in @ : row.domain # name}
                              \cup {[id |-> id, domain |-> name, status |-> status,
                                     total_emails |-> 0, verified_emails |-> 0]},
                          !.domain_seq = id],
         lastrowid |-> id]

\* UPDATE domains SET status = ?, ... WHERE domain = ?
update_domain_status(d, name, status, kwargs) ==
    [d EXCEPT !.domains =
        {IF row.domain = name
         THEN [f \in DOMAIN row |-> IF f = "status" THEN status
                                    ELSE IF f \in DOMAIN kwargs THEN kwargs[f]
                                    ELSE row[f]]
         ELSE row : row \in @}]

\* INSERT OR REPLACE INTO emails: UNIQUE(domain_id, email)
add_email(d, domain_id, email, is_valid) ==
    LET id == d.email_seq + 1
    IN  [db |-> [d EXCEPT !.emails = {row \in @ : ~(row.domain_id = domain_id /\ row.email = email)}
                              \cup {[id |-> id, domain_id |-> domain_id, email |-> email,
                                     is_valid |-> is_valid]},
                          !.email_seq = id],
         lastrowid |-> id]

\* SELECT e.* FROM emails e JOIN domains d ON e.domain_id = d.id WHERE d.domain = ?
get_emails_by_domain(d, name) ==
    {e \in d.emails : \E row \in d.domains : row.id = e.domain_id /\ row.domain = name}

\* the /api/scrape requests that are followed
MaxScrapes == 2

Runs == 1 .. MaxScrapes

\* the domain of a request, without a scheme and with one
DomainForms == { <<"a.com">>, <<"https:", "/", "/", "a.com">> }

\* str(domain_id), where an id is passed for the domain name
IdText(id) == << <<"0", "1", "2", "3", "4", "5", "6", "7", "8", "9">>[id + 1] >>

NoThread ==
    [pc |-> "none", original_domain |-> <<>>, domain |-> <<>>, all_emails |-> <<>>,
     completed_count |-> 0, ended |-> "", recorded |-> <<>>]

\* the run threads that have begun and not returned
Active == {r \in Runs : threads[r].pc \notin {"none", "ended"}}

pipeRest == <<max_workers, stop_accepted, db_emails, email_sources, task_raised, run_pc,
              all_emails, future_state, future_result, yielded, current_future, cancel_i,
              reset_timer, runs, stop_seen, finished_at_stop, started_after_stop, results_base>>

notDash == <<cfgVars, crawlVars, rankVars, pipeRest, overlapVars, normVars, scoreVars,
             verifyVars, genVars, textVars, paceVars, filterVars>>

\* EmailScopeDashboard.__init__
InitDash ==
    /\ CrawlerOff
    /\ RankIdle
    /\ PipelineOff
    /\ OverlapOff
    /\ NormOff
    /\ ScoreOff
    /\ VerifyOff
    /\ GenOff
    /\ TextOff
    /\ PaceOff
    /\ FilterOff
    /\ threads = [r \in Runs |-> NoThread]
    /\ timers = 0
    /\ db = EmptyDb
    /\ current_domain_id = 0

\* POST /api/scrape: a thread is started when the status is "idle"
PostScrape(form) ==
    /\ scraping_status = "idle"
    /\ \E r \in Runs :
         /\ threads[r].pc = "none"
         /\ \A q \in Runs : q < r => threads[q].pc # "none"
         /\ threads' = [threads EXCEPT ![r] = [@ EXCEPT !.pc = "begin",
                                                       !.original_domain = form]]
    /\ scraping_status' = "scraping"
    /\ UNCHANGED <<stop_scraping, results, timers, db, current_domain_id, notDash>>

\* POST /api/stop
PostStop ==
    /\ scraping_status = "scraping"
    /\ stop_scraping' = TRUE
    /\ scraping_status' = "stopped"
    /\ db' = IF current_domain_id # 0
             THEN update_domain_status(db, IdText(current_domain_id), "stopped", <<>>)
             ELSE db
    /\ UNCHANGED <<results, threads, timers, current_domain_id, notDash>>

\* POST /api/clear
PostClear ==
    /\ results' = <<>>
    /\ scraping_status' = "idle"
    /\ db' = [db EXCEPT !.domains = {}, !.emails = {}]
    /\ UNCHANGED <<stop_scraping, threads, timers, current_domain_id, notDash>>

\* POST /api/reset-status
PostResetStatus ==
    /\ scraping_status' = "idle"
    /\ stop_scraping' = FALSE
    /\ current_domain_id' = 0
    /\ UNCHANGED <<results, threads, timers, db, notDash>>

\* the except block of _scrape_domain: status "error", the database update, and a
\* thread that sets the status to "idle" after 3 seconds
Raised(r) ==
    /\ scraping_status' = "error"
    /\ db' = IF current_domain_id # 0
             THEN update_domain_status(db, IdText(current_domain_id), "error", <<>>)
             ELSE db
    /\ timers' = timers + 1
    /\ threads' = [threads EXCEPT ![r] = [@ EXCEPT !.pc = "ended", !.ended = "error"]]

\* _scrape_domain up to the crawl: the stop flag is reset and the domain is added;
\* sqlite3 may raise (a locked or unwritable database file)
RunBegin(r) ==
    /\ threads[r].pc = "begin"
    /\ stop_scraping' = FALSE
    /\ \E raises \in BOOLEAN :
         IF raises
         THEN /\ Raised(r)
              /\ UNCHANGED current_domain_id
         ELSE \E added \in {add_domain(db, threads[r].original_domain, "scraping")} :
                /\ db' = added.db
                /\ current_domain_id' = added.lastrowid
                /\ threads' = [threads EXCEPT ![r] =
                      [@ EXCEPT !.pc = "crawl",
                                !.domain = IF StartsWith(threads[r].original_domain, HTTP)
                                              \/ StartsWith(threads[r].original_domain, HTTPS)
                                           THEN threads[r].original_domain
                                           ELSE HTTPS \o threads[r].original_domain]]
                /\ UNCHANGED <<scraping_status, timers>>
    /\ UNCHANGED <<results, notDash>>

\* the crawl: with no urls the status is "error" and the thread returns
RunCrawl(r) ==
    /\ threads[r].pc = "crawl"
    /\ \E urls_found \in BOOLEAN :
         IF urls_found
         THEN /\ threads' = [threads EXCEPT ![r] = [@ EXCEPT !.pc = "extract"]]
              /\ UNCHANGED scraping_status
         ELSE /\ scraping_status' = "error"
              /\ threads' = [threads EXCEPT ![r] = [@ EXCEPT !.pc = "ended", !.ended = "error"]]
    /\ UNCHANGED <<stop_scraping, results, timers, db, current_domain_id, notDash>>

\* the extraction: with no emails the status is "error" and the thread returns
RunExtract(r) ==
    /\ threads[r].pc = "extract"
    /\ \E k \in 0 .. Len(EmailOrder) :
         IF k > 0
         THEN /\ threads' = [threads EXCEPT ![r] = [@ EXCEPT !.pc = "verify",
                                                            !.all_emails = SubSeq(EmailOrder, 1, k)]]
              /\ UNCHANGED scraping_status
         ELSE /\ scraping_status' = "error"
              /\ threads' = [threads EXCEPT ![r] = [@ EXCEPT !.pc = "ended", !.ended = "error"]]
    /\ UNCHANGED <<stop_scraping, results, timers, db, current_domain_id, notDash>>

\* one round of the as_completed loop: the stop flag is tested; otherwise the
\* result of one _verify_email_concurrent, which has stored the address under
\* self.current_domain_id (add_email raises for None: the result is an error), is
\* appended to self.results
RunVerify(r) ==
    /\ threads[r].pc = "verify"
    /\ threads[r].completed_count < Len(threads[r].all_emails)
    /\ IF stop_scraping
       THEN /\ scraping_status' = "stopped"
            /\ threads' = [threads EXCEPT ![r] = [@ EXCEPT !.pc = "ended", !.ended = "stopped"]]
            /\ UNCHANGED <<results, db>>
       ELSE \E is_valid \in BOOLEAN :
            \E email \in {threads[r].all_emails[threads[r].completed_count + 1]} :
              /\ IF current_domain_id # 0
                 THEN /\ db' = add_email(db, current_domain_id, email, is_valid).db
                      /\ results' = Append(results, [email |-> email, is_valid |-> is_valid,
                                                     run |-> r])
                 ELSE /\ db' = db
                      /\ results' = Append(results, [email |-> email, is_valid |-> FALSE,
                                                     run |-> r])
              /\ threads' = [threads EXCEPT ![r] = [@ EXCEPT !.completed_count = @ + 1]]
              /\ UNCHANGED scraping_status
    /\ UNCHANGED <<stop_scraping, timers, current_domain_id, notDash>>

\* the completion: verified_count over self.results, the database update under the
\* domain with its scheme, status "completed", and a thread that sets the status
\* to "idle" after 5 seconds
RunComplete(r) ==
    /\ threads[r].pc = "verify"
    /\ threads[r].completed_count = Len(threads[r].all_emails)
    /\ \E verified_count \in {Cardinality({i \in DOMAIN results : results[i].is_valid})} :
         /\ db' = update_domain_status(db, threads[r].domain, "completed",
                      [total_emails |-> Len(threads[r].all_emails),
                       verified_emails |-> verified_count])
         /\ threads' = [threads EXCEPT ![r] =
               [@ EXCEPT !.pc = "ended", !.ended = "completed",
                         !.recorded = [total_emails |-> Len(threads[r].all_emails),
                                       verified_emails |-> verified_count]]]
    /\ scraping_status' = "completed"
    /\ timers' = timers + 1
    /\ UNCHANGED <<stop_scraping, results, current_domain_id, notDash>>

\* a reset thread wakes up
ResetThread ==
    /\ timers > 0
    /\ timers' = timers - 1
    /\ scraping_status' = "idle"
    /\ UNCHANGED <<stop_scraping, results, threads, db, current_domain_id, notDash>>

RunStep(r) == RunBegin(r) \/ RunCrawl(r) \/ RunExtract(r) \/ RunVerify(r) \/ RunComplete(r)

NextDash ==
    \/ \E form \in DomainForms : PostScrape(form)
    \/ PostStop
    \/ PostClear
    \/ PostResetStatus
    \/ \E r \in Runs : RunStep(r)
    \/ ResetThread

SpecDash == InitDash /\ [][NextDash]_vars

\* the dashboard left to itself: scrape and stop requests, and neither
\* /api/clear nor /api/reset-status; the threads that exist go on running
NextUnattended ==
    \/ \E form \in DomainForms : PostScrape(form)
    \/ PostStop
    \/ \E r \in Runs : RunStep(r)
    \/ ResetThread

SpecUnattended ==
    /\ InitDash
    /\ [][NextUnattended]_vars
    /\ WF_vars(ResetThread)
    /\ \A r \in Runs : WF_vars(RunStep(r))

\* ------------------------------------------------------------------ claims
\* C1 as stated: at every step of a crawl, for every configured max_pages, the
\* discovered set holds at most max_pages URLs.
C1_DiscoveredWithinMaxPages ==
    Cardinality(discovered_urls) <= max_pages

\* C1 as amended: for every configured max_pages >= 1 the discovered set holds at
\* most max_pages URLs at every step; with max_pages = 0 it holds the seed alone.
C1_DiscoveredWithinMaxPagesFromOne ==
    /\ max_pages >= 1 => Cardinality(discovered_urls) <= max_pages
    /\ max_pages = 0 => discovered_urls \subseteq {domain}

C1_Witness ==
    /\ pc = "batch"
    /\ max_pages >= 2
    /\ Cardinality(discovered_urls) = max_pages
    /\ fetch_log # <<>>

\* C2: the list a crawl returns has at most max_pages entries, whatever the site
\* serves and whichever fetches fail.
C2_ResultWithinMaxPages ==
    pc = "done" => Len(final_urls) <= max_pages

C2_Witness ==
    /\ pc = "done"
    /\ max_pages >= 2
    /\ Len(final_urls) = max_pages

\* C3: every URL of the discovered set and of the returned list is on the seed's
\* host; a link to another host found on a fetched page enters neither.
C3_ResultOnSeedHost ==
    \A u \in discovered_urls \cup Range(final_urls) :
        urlparse(u).netloc = urlparse(domain).netloc

C3_Witness ==
    /\ pc = "done"
    /\ "host" \in dropped
    /\ Len(final_urls) >= 2

\* C4: no URL of the returned list has a path with a denylisted segment or a path
\* that ends in a denylisted extension, URLs with a query string and the seed
\* included.
C4_NoDenylistedUrlInResult ==
    \A u \in Range(final_urls) :
        LET path == Lower(urlparse(u).path)
        IN  /\ ~\E pattern \in skip_patterns : Contains(path, pattern)
            /\ ~\E ext \in skip_extensions : EndsWith(path, <<ext>>)

\* C5: in every state of a crawl the visited set is a subset of the discovered set,
\* the visited and the failed set are disjoint, and the URLs fetched so far are
\* those of the two sets.
C5_VisitedFailedPartition ==
    /\ visited_urls \subseteq discovered_urls
    /\ visited_urls \cap failed_urls = {}
    /\ {fetch_log[i].url : i \in DOMAIN fetch_log} = visited_urls \cup failed_urls

C5_Witness ==
    /\ visited_urls # {}
    /\ failed_urls # {}

\* C6: within one crawl no URL is fetched twice; a URL that failed or was visited
\* is in no queue again.
C6_NoUrlFetchedTwice ==
    /\ \A i, j \in DOMAIN fetch_log : fetch_log[i].url = fetch_log[j].url => i = j
    /\ \A u \in visited_urls \cup failed_urls :
         /\ u \notin Range(urls_to_crawl)
         /\ pc = "batch" => \A k \in DOMAIN current_batch : k >= bi => current_batch[k] # u

C6_Witness ==
    /\ Len(fetch_log) >= 3
    /\ ~fetch_log[2].ok

\* C7: a disallowing robots.txt without the bypass flag ends the crawl with the
\* empty list, nothing fetched and the three sets empty; with the bypass flag
\* robots.txt is not consulted and the crawl goes on to the seed.
C7_RobotsBlocksUnlessBypassed ==
    /\ (robots_resp = "disallow" /\ pc # "robots") =>
         /\ pc = "done"
         /\ final_urls = <<>>
         /\ fetch_log = <<>>
         /\ visited_urls = {} /\ failed_urls = {} /\ discovered_urls = {}
    /\ (bypass_robots /\ pc \notin {"idle", "robots"}) =>
         /\ robots_resp = "unfetched"
         /\ domain \in discovered_urls

C7_Witness ==
    /\ pc = "done"
    /\ ~bypass_robots
    /\ robots_resp = "disallow"

\* C8: the ranking returns a permutation of its input in non-increasing score in
\* which two links of equal score keep their input order.
C8_StableDescendingSort ==
    rank_pc = "ranked" =>
        /\ Len(rank_out) = Len(rank_in)
        /\ \E p \in Perms(DOMAIN rank_in) :
             /\ \A i \in DOMAIN rank_in : rank_out[i] = rank_in[p[i]]
             /\ \A i, j \in DOMAIN rank_in :
                  i < j => /\ link_priority(rank_out[i]) >= link_priority(rank_out[j])
                           /\ link_priority(rank_out[i]) = link_priority(rank_out[j])
                                 => p[i] < p[j]

C8_Witness ==
    /\ rank_pc = "ranked"
    /\ Len(rank_in) >= 3
    /\ rank_in[1] # rank_in[2]
    /\ link_priority(rank_in[1]) = link_priority(rank_in[2])
    /\ link_priority(rank_in[2]) < link_priority(rank_in[3])

\* C9: once the collector has seen the stop flag, no verification task that had
\* not started begins to execute.
C9_NoTaskStartsAfterStopSeen ==
    started_after_stop = {}

\* C10: when a run is stopped during verification, the result of every task that
\* had finished when the stop flag was seen is in the results after the run.
C10_FinishedResultsKept ==
    (run_pc = "ended" /\ stop_seen) =>
        \A i \in finished_at_stop :
            \E k \in (results_base + 1)..Len(results) : results[k].email = all_emails[i]

\* C11: once a stop request was accepted for a run, whenever in the run it came,
\* the status of the run is never "completed", and "stopped" when the run is over.
C11_StoppedRunNeverCompleted ==
    stop_accepted =>
        /\ scraping_status # "completed"
        /\ run_pc = "ended" => scraping_status = "stopped"

\* C12: the number of verification tasks that run at the same time is at most
\* min(config['max_workers'], number of addresses).
C12_RunningWithinMaxWorkers ==
    Cardinality(Running) <=
        (IF max_workers < Len(all_emails) THEN max_workers ELSE Len(all_emails))

\* the entries of results appended by the current run for the address of future i
ResultsOf(i) ==
    {k \in (results_base + 1)..Len(results) : results[k].email = all_emails[i]}

Crawling == {t \in Invocations : crawls[t].pc \in {"level", "batch", "final"}}

\* C14: while a crawl is under way, the visited and the failed set of the crawler
\* hold only URLs that this crawl itself has fetched, also when another crawl on
\* the same crawler overlaps with it.
C14_CrawlStateOwnedByOneCrawl ==
    \A t \in Crawling : visited_urls \cup failed_urls \subseteq crawls[t].fetched

\* C15: the source stored with an address of the run is the source tag that
\* extract_all_emails gave this address.
C15_StoredSourceIsExtractorSource ==
    \A row \in db_emails :
        row.email \in DOMAIN email_sources => row.source = email_sources[row.email]

\* C16: _normalize_email(_normalize_email(x)) = _normalize_email(x) for every
\* string x, strings with parentheses next to whitespace included.
C16_NormalizeIdempotent ==
    norm_pc = "twice" => norm_twice = norm_out

\* an address that passes the verifier's format validation, and its domain
FormatValid(email) == _validate_email_format(email).ok
DomainOf(email) == LowerStr(Split(email, "@")[2])

\* C17: for a format-valid address whose domain is in the disposable denylist or
\* matches a disposable pattern, verify_email returns is_valid false, confidence 10
\* and a reason that names it disposable, with mock DNS or without, and the MX
\* record is not asked for.
C17_DisposableRejected ==
    (/\ verify_pc = "done"
     /\ FormatValid(verify_in)
     /\ \/ DomainOf(verify_in) \in disposable_domains
        \/ \E pattern \in disposable_patterns : Search(DomainOf(verify_in), pattern))
    => /\ ~verify_out.is_valid
       /\ verify_out.confidence = 10
       /\ verify_out.reason[1] = "Disposable email"
       /\ ~mx_asked

C17_Witness ==
    /\ verify_pc = "done"
    /\ ~mock_dns
    /\ FormatValid(verify_in)
    /\ DomainOf(verify_in) \notin disposable_domains
    /\ \E pattern \in disposable_patterns : Search(DomainOf(verify_in), pattern)
    /\ verify_out.confidence = 10

\* the characters an address may be made of
AddressChars == Alnum \cup {".", "_", "+", "-", "@"}

\* a syntactically malformed address: empty, zero or several "@", an over-long
\* part, consecutive dots, a bad character, a missing or one-character TLD
MalformedAddress(email) ==
    \/ email = <<>>
    \/ Count(email, "@") # 1
    \/ LET local == Split(email, "@")[1]
           dom == Split(email, "@")[2]
           labels == Split(dom, ".")
       IN  \/ Len(local) > 64
           \/ Len(dom) > 253
           \/ Contains(email, <<".", ".">>)
           \/ \E i \in DOMAIN email : email[i] \notin AddressChars
           \/ Len(labels) < 2
           \/ Len(labels[Len(labels)]) < 2

\* C18: for a syntactically malformed address verify_email returns is_valid false
\* and confidence 0.
C18_MalformedRejected ==
    (verify_pc = "done" /\ MalformedAddress(verify_in)) =>
        /\ ~verify_out.is_valid
        /\ verify_out.confidence = 0

\* C19: with mock DNS, for a format-valid address at a domain of the reputable
\* allowlist verify_email returns is_valid true and a confidence of at least 60.
C19_ReputableValidUnderMockDns ==
    (/\ verify_pc = "done"
     /\ mock_dns
     /\ FormatValid(verify_in)
     /\ DomainOf(verify_in) \in reputable_domains)
    => /\ verify_out.is_valid
       /\ verify_out.confidence >= 60

C19_Witness ==
    /\ verify_pc = "done"
    /\ mock_dns
    /\ verify_in = <<"i", "n", "f", "o", "@", "G", "m", "a", "i", "l", ".", "c", "o", "m">>
    /\ verify_out.is_valid
    /\ verify_out.confidence >= 60

\* the sources that have been scored for the address
Scored == DOMAIN score_out

\* C20: for one address and one target domain the score of a mailto address is
\* above the score of an observed one, which is above the score of a generated
\* one, and every score is between 0 and 100.
C20_SourceOrderAndRange ==
    score_pc = "scoring" =>
        /\ \A s \in Scored : score_out[s] \in 0..100
        /\ {"mailto_link", "found"} \subseteq Scored =>
               score_out["mailto_link"] > score_out["found"]
        /\ {"found", "generated"} \subseteq Scored =>
               score_out["found"] > score_out["generated"]

C20_Witness ==
    /\ score_pc = "scoring"
    /\ {"mailto_link", "found", "generated"} \subseteq Scored
    /\ score_out["mailto_link"] = 100
    /\ score_out["found"] = 85
    /\ score_out["generated"] = 45

\* the technology keywords of _detect_industry
TechKeywords == industries[1].keywords

\* C21 as stated: two calls with one domain return the same list, and for a domain
\* whose lower-cased name contains a technology keyword the list holds dev@ and
\* info@ the lower-cased domain.
C21_DeterministicWithDevAndInfo ==
    /\ gen_pc = "twice" => gen_twice = gen_out
    /\ (/\ gen_pc \in {"once", "twice"}
        /\ \E keyword \in TechKeywords : Contains(LowerStr(gen_domain), keyword))
       => /\ Format(<<"d", "e", "v">>, LowerStr(gen_domain)) \in Range(gen_out)
          /\ Format(<<"i", "n", "f", "o">>, LowerStr(gen_domain)) \in Range(gen_out)

\* the domain the candidates are generated for: lower-cased, without surrounding
\* whitespace, without one leading "www."
CleanDomain(dom) ==
    LET stripped == Strip(LowerStr(dom), Whitespace)
    IN  IF StartsWith(stripped, <<"w", "w", "w", ".">>) THEN SubSeq(stripped, 5, Len(stripped))
        ELSE stripped

\* C21 amended: the addresses are dev@ and info@ the cleaned domain.
C21_DeterministicWithDevAndInfoAtCleanDomain ==
    /\ gen_pc = "twice" => gen_twice = gen_out
    /\ (/\ gen_pc \in {"once", "twice"}
        /\ \E keyword \in TechKeywords : Contains(LowerStr(gen_domain), keyword))
       => /\ Format(<<"d", "e", "v">>, CleanDomain(gen_domain)) \in Range(gen_out)
          /\ Format(<<"i", "n", "f", "o">>, CleanDomain(gen_domain)) \in Range(gen_out)

C21_Witness ==
    /\ gen_pc = "twice"
    /\ gen_domain = <<"w", "w", "w", ".", "T", "e", "c", "h", "n", "e", "w", "s">>
    /\ <<"d", "e", "v", "@", "t", "e", "c", "h", "n", "e", "w", "s">> \in Range(gen_out)
    /\ <<"i", "n", "f", "o", "@", "t", "e", "c", "h", "n", "e", "w", "s">> \in Range(gen_out)
    /\ <<"p", "r", "e", "s", "s", "@", "t", "e", "c", "h", "n", "e", "w", "s">> \notin Range(gen_out)

\* the content holds a bracket-obfuscated address and words, nothing else
BracketObfuscated(parts) ==
    /\ parts.at \in BracketAt
    /\ parts.dots[Len(parts.dots)] = BracketDot
    /\ Len(parts.tld) >= 2
    /\ parts.suffix \in {<<>>, <<" ", "n", "o", "w">>}

\* the address the pieces spell
RECURSIVE JoinLabels(_, _)
JoinLabels(labels, k) ==
    IF k > Len(labels) THEN <<>> ELSE labels[k] \o <<".">> \o JoinLabels(labels, k + 1)

Deobfuscated(parts) ==
    LowerStr(parts.user \o <<"@">> \o JoinLabels(parts.labels, 1) \o parts.tld)

\* C22: of a text that holds only a bracket-obfuscated address the extractor
\* returns that address de-obfuscated, tagged "found", and no other address.
C22_BracketObfuscatedYieldsTheAddress ==
    (/\ text_pc = "done"
     /\ ~text_soup.given
     /\ text_domain = <<>>
     /\ BracketObfuscated(text_parts))
    => /\ text_out.found_emails = {Deobfuscated(text_parts)}
       /\ DOMAIN text_out.email_sources = {Deobfuscated(text_parts)}
       /\ text_out.email_sources[Deobfuscated(text_parts)] = "found"

\* C23: the list a crawl returns is the discovered urls ordered by non-increasing
\* relevance score, urls of equal score in the order in which they were
\* discovered, cut to max_pages; so it is a function of the pages and the fetch
\* outcomes the crawl saw.
C23_FinalListRankedInDiscoveryOrder ==
    [][(pc = "final" /\ pc' = "done")
           => final_urls' = _prioritize_urls(discovered_order, max_pages)]_vars

\* C24: the links of a page fetched at depth d enter the queue of the next level
\* only if d < max_depth and discovered_urls is below max_pages, and no url is
\* fetched at a depth above max_depth.
C24_EnqueuedBelowMaxDepthOnly ==
    /\ [](\A i \in DOMAIN fetch_log : fetch_log[i].depth <= max_depth)
    /\ [][(pc = "batch" /\ Len(urls_to_crawl') > Len(urls_to_crawl))
              => /\ depth < max_depth
                 /\ Cardinality(discovered_urls) < max_pages]_vars

\* a page fetched at max_depth, one level below the seed or deeper, whose links
\* were discovered and not queued
C24_Witness ==
    /\ pc = "level"
    /\ max_depth >= 1
    /\ \E i \in DOMAIN fetch_log : fetch_log[i].depth = max_depth /\ fetch_log[i].ok
    /\ urls_to_crawl = <<>>
    /\ \E url \in discovered_urls : \A i \in DOMAIN fetch_log : fetch_log[i].url # url
    /\ Cardinality(discovered_urls) < max_pages



\* C25: within a crawl, any two consecutive requests are at least the pacing
\* interval apart: the instant at which _apply_rate_limit lets a request go is
\* rate_limit or more after the instant at which it let the previous one go.
C25_ConsecutiveRequestsPaced ==
    \A i \in 1 .. Len(released_at) - 1 :
        released_at[i + 1] - released_at[i] >= rate_limit


\* the host of an absolute link
HostOf(link) == urlparse(link).netloc

\* C26: the filter returns only links whose host is the seed's domain: a link to
\* another host that has the seed's domain in its path or its query is left out.
C26_FilterKeepsSeedHostOnly ==
    flt_pc = "filtered" =>
        \A i \in DOMAIN flt_out : EndsWith(HostOf(flt_out[i]), DomainParts(flt_domain))


\* a link whose path is the root, or begins with /home or /index
RootLike(link) ==
    LET path == Lower(urlparse(link).path)
    IN  \/ path \in {<<>>, <<"/">>}
        \/ StartsWith(path, <<"/", "home">>)
        \/ StartsWith(path, <<"/", "index">>)

\* the relevance score with the +5 for the root-like links only
ClaimedPriority(link) ==
    LET tokens == Range(Lower(link))
    IN  10 * Cardinality({k \in priority_keywords : k \in tokens})
            + (IF RootLike(link) THEN 5 ELSE 0)
            - (Count(link, "/") - 2)

\* C27: the +5 of the relevance score goes to the root/home/index-like links only:
\* the ranked list is in non-increasing order of the score so computed.
C27_BonusForRootLikeOnly ==
    rank_pc = "ranked" =>
        \A i, j \in DOMAIN rank_out :
            i < j => ClaimedPriority(rank_out[i]) >= ClaimedPriority(rank_out[j])


\* the checks of verify_email in the order of the claim
StageOrder == <<"format", "disposable", "reputation", "mx">>

Disposable(dom) ==
    \/ dom \in disposable_domains
    \/ \E pattern \in disposable_patterns : Search(dom, pattern)

\* C28: verify_email goes through format, disposable, reputation and MX in this
\* order and stops at the first that fails: after a format failure no later check
\* has run, after a disposable match neither reputation nor MX has run, and the MX
\* record is looked up only for a format-valid, non-disposable address of a
\* verifier without mock DNS.
C28_StagesShortCircuit ==
    verify_pc = "done" =>
        /\ verify_stages = SubSeq(StageOrder, 1, Len(verify_stages))
        /\ ~FormatValid(verify_in) => verify_stages = <<"format">>
        /\ (FormatValid(verify_in) /\ Disposable(DomainOf(verify_in)))
               => verify_stages = <<"format", "disposable">>
        /\ mx_asked => /\ FormatValid(verify_in)
                       /\ ~Disposable(DomainOf(verify_in))
                       /\ ~mock_dns

C28_Witness ==
    /\ verify_pc = "done"
    /\ ~mock_dns
    /\ mx_asked
    /\ verify_stages = StageOrder
    /\ verify_out.reason = <<"MX check failed">>

\* the confidence of the claim for an address at this domain
ClaimedConfidence(dom) ==
    LET sum == 20 + 30 + 20 + Min(_check_domain_reputation(dom), 30)
               + (IF dom \in reputable_domains THEN 10 ELSE 0)
               - (IF Len(dom) < 5 \/ Len(dom) > 30 THEN 10 ELSE 0)
    IN  IF sum < 0 THEN 0 ELSE IF sum > 100 THEN 100 ELSE sum

\* C29: for an address that has passed the format check and the MX check (or the
\* mock DNS that stands for it) the confidence is 20 + 30 + 20 + min(reputation, 30),
\* plus 10 for an allowlisted domain, minus 10 for a domain shorter than 5 or
\* longer than 30, kept within 0..100; and every result has a confidence in 0..100.
C29_ConfidenceFormulaAndRange ==
    verify_pc = "done" =>
        /\ verify_out.confidence \in 0..100
        /\ (/\ FormatValid(verify_in)
            /\ verify_stages = StageOrder
            /\ verify_out.reason # <<"MX check failed">>)
           => verify_out.confidence = ClaimedConfidence(DomainOf(verify_in))

C29_Witness ==
    /\ verify_pc = "done"
    /\ ~mock_dns
    /\ mx_asked
    /\ Len(DomainOf(verify_in)) < 5
    /\ verify_out.confidence = 90
    /\ verify_out.is_valid


\* C30: the found and the generated addresses extract_all_emails returns have no
\* address in common, and an address observed on the page (in the text or in a
\* mailto link) is not tagged as generated.
C30_OutputsDisjoint ==
    text_pc = "done" =>
        /\ text_out.found_emails \cap text_out.generated_emails = {}
        /\ \A e \in text_out.found_emails : text_out.email_sources[e] # "generated"


\* the company token of a domain: its first label
CompanyToken(dom) == Split(CleanDomain(dom), ".")[1]

\* C31: for a domain whose first label is longer than 3 characters the list of
\* generate_common_emails holds the address of the label's first 3 characters at
\* the domain.
C31_TruncatedTokenVariantIncluded ==
    (gen_pc \in {"once", "twice"} /\ Len(CompanyToken(gen_domain)) > 3)
        => Format(SubSeq(CompanyToken(gen_domain), 1, 3), CleanDomain(gen_domain))
               \in Range(gen_out)


\* C32: every valid address that is the target of a mailto anchor of a crawled page
\* is among the candidates the run collects from the page for verification.
C32_MailtoTargetsAreCandidates ==
    text_pc = "processed" =>
        \A e \in extract_emails_from_links(text_soup.hrefs) :
            e \in text_out.found_emails \cup text_out.generated_emails


\* C33: at most one run is active at any time.
C33_AtMostOneRunActive == Cardinality(Active) <= 1

\* C34: every run that has ended, completed, stopped or in error, is followed by
\* the status "idle" with no /api/reset-status and no /api/clear.
C34_EndedRunsReturnToIdle ==
    \A r \in Runs : (threads[r].pc = "ended") ~> (scraping_status = "idle")

\* the step with which run r completes
Completes(r) ==
    /\ threads[r].pc = "verify"
    /\ threads'[r].pc = "ended"
    /\ threads'[r].ended = "completed"

\* C38: the verified count a run records at its completion is not above the total
\* it records, and the results counted are results of that run.
C38_VerifiedCountOfThisRun ==
    [][\A r \in Runs : Completes(r) =>
          /\ threads'[r].recorded.verified_emails <= threads'[r].recorded.total_emails
          /\ \A i \in DOMAIN results : results[i].is_valid => results[i].run = r]_vars

\* C39: when a run ends, the row of the domain as it was submitted has the status
\* with which the run ended, and not "scraping".
C39_DomainRowHasTerminalStatus ==
    [][\A r \in Runs :
         (threads[r].pc # "ended" /\ threads'[r].pc = "ended") =>
             \A row \in db'.domains :
                 row.domain = threads[r].original_domain => row.status = threads'[r].ended]_vars

\* C40: adding a domain that is stored keeps what get_emails_by_domain returns for
\* it, and there is at most one row per domain name and address.
C40_StoredEmailsSurviveAddDomain ==
    [][\A r \in Runs :
         (threads[r].pc = "begin" /\ threads'[r].pc = "crawl") =>
             /\ get_emails_by_domain(db, threads[r].original_domain)
                    \subseteq get_emails_by_domain(db', threads[r].original_domain)
             /\ \A e, f \in get_emails_by_domain(db', threads[r].original_domain) :
                    e.email = f.email => e = f]_vars


\* C35: every crawl leaves its loops, whatever the pages link to and whichever fetches
\* fail: a started crawl reaches the final ranking or the return, the final ranking is
\* followed by nothing but the return, and no crawl makes more than max_pages fetch
\* attempts
C35_CrawlTerminatesWithinMaxPagesFetches ==
    /\ [](Len(fetch_log) <= max_pages)
    /\ (pc \in {"robots", "level", "batch"}) ~> (pc \in {"final", "done"})
    /\ [][pc = "final" => pc' = "done"]_vars

C35_Witness ==
    /\ pc = "done"
    /\ Len(fetch_log) >= 2
    /\ \E i \in DOMAIN fetch_log : ~fetch_log[i].ok
    /\ \E i \in DOMAIN fetch_log : fetch_log[i].ok

\* C36: a crawl that robots.txt does not block and that may hold one page or more
\* returns a list that is not empty and holds the seed, whichever fetches fail, and a
\* url that failed stays in the list it was discovered into
C36_SeedAlwaysReturned ==
    (pc = "done" /\ robots_resp # "disallow" /\ max_pages >= 1) =>
        /\ final_urls # <<>>
        /\ domain \in Range(final_urls)
        /\ (discovered_urls \cap failed_urls) \subseteq Range(final_urls)

\* C37: a result of the final scoring has a confidence of 80 or more, so that
\* "confidence > 30" rejects nothing: an address is valid exactly when its format is
\* valid, its domain is not disposable and the domain has an MX record (or the
\* verifier runs with mock DNS); and every confidence is 0, 10 or within 80..100.
C37_FinalScoreAtLeast80 ==
    verify_pc = "done" =>
        /\ verify_out.confidence \in {0, 10} \cup (80..100)
        /\ (verify_stages = StageOrder /\ verify_out.reason # <<"MX check failed">>)
               => verify_out.confidence >= 80
        /\ verify_out.is_valid <=> /\ FormatValid(verify_in)
                                   /\ ~Disposable(DomainOf(verify_in))
                                   /\ (mock_dns \/ mx_record)

C37_Witness ==
    /\ verify_pc = "done"
    /\ ~mock_dns
    /\ mx_record
    /\ verify_out.is_valid
    /\ verify_out.confidence = 80
    /\ Len(DomainOf(verify_in)) > 30

====
